---- MODULE Spec2Model ----
(***************************************************************************)
(* Verification model of the ICP discovery engine's scoring and            *)
(* deduplication core: the three rule-based evidence scorers, the          *)
(* organization-name normalisers, the Deduplicator and the                 *)
(* dedupe_enrich_score step of the segment flows.                          *)
(*                                                                         *)
(* Free text is a sequence of whitespace-separated tokens; an organization *)
(* name is a sequence of one-character strings; a URL is the sequence of   *)
(* the labels of its hostname (the empty sequence is the empty string).    *)
(***************************************************************************)
EXTENDS Integers, Sequences, FiniteSets, TLC

VARIABLES
    scorer,      \* which scorer the harness calls: "healthcare", "corporate", "providers"
    evidence,    \* the evidence mapping handed to the scorer (mutated in place by it)
    ev_before,   \* the evidence mapping as it was before the last scorer call
    result,      \* the ScoreResult of the last scorer call, or NoResult
    calls,       \* number of scorer calls made on this evidence mapping
    nm_which,    \* which normaliser the harness calls: "dedup" or "eval"
    nm_in,       \* the organization name handed to the first pass
    nm_out,      \* the outputs of the successive normalisation passes
    dd_orgs,     \* the list of organization dicts handed to deduplicate_organizations
    dd_threshold,\* similarity_threshold of the Deduplicator, in hundredths
    dd_pc,       \* position in deduplicate_organizations: "start", "loop", "done"
    dd_dups,     \* the list returned by find_duplicates
    dd_k,        \* index of the next duplicate pair the loop processes
    dd_st,       \* to_keep, confidence_scores and the evictions made so far
    dd_result,   \* the DeduplicationResult returned
    sm_which,    \* which calculate_similarity the harness calls: "dedup" or "eval"
    sm_a,        \* the first organization name
    sm_b,        \* the second organization name
    sm_fwd,      \* calculate_similarity(sm_a, sm_b), once computed
    sm_rev,      \* calculate_similarity(sm_b, sm_a), once computed
    sm_self,     \* calculate_similarity(sm_a, sm_a), once computed
    fl_seg,      \* the segment flow that runs: "healthcare", "corporate", "providers"
    fl_region,   \* state.region
    fl_target,   \* state.targetcount
    fl_cands,    \* state.candidates (their evidence and region are mutated in place)
    fl_harvested,\* history: state.candidates as harvest returned them
    ledger,      \* the rows of the segment's ledger
    fl_seen,     \* the local `seen` of dedupe_enrich_score
    fl_out,      \* the local `outputs` of dedupe_enrich_score
    fl_outputs,  \* state.outputs
    fl_i,        \* index of the next candidate the for loop visits
    fl_pc,       \* position in dedupe_enrich_score: "start", "loop", "done"
    budget_enrich, \* budget.enrich
    na_count,    \* the local na_count
    emea_count,  \* the local emea_count
    fl_trace,    \* history: what the loop did with each candidate it visited
    fl_run,      \* which run of the flow this is in the process: "first" or "next"
    fl_upserted, \* history: the keys of the rows write_outputs has upserted
    uq_file,     \* the CSV given to the evaluator: "missing", "unreadable" or "ok"
    uq_rows,     \* the rows csv.DictReader yields for it
    uq_done,     \* which of the two duplicate checks have run on the batch
    uq_result,   \* what evaluate_organization_uniqueness returned
    uq_dedup     \* what deduplicator.deduplicate_organizations returned

scoreVars == <<scorer, evidence, ev_before, result, calls>>

normVars == <<nm_which, nm_in, nm_out>>

dedupVars == <<dd_orgs, dd_threshold, dd_pc, dd_dups, dd_k, dd_st, dd_result>>

simVars == <<sm_which, sm_a, sm_b, sm_fwd, sm_rev, sm_self>>

uqVars == <<uq_file, uq_rows, uq_done, uq_result, uq_dedup>>

flowVars ==
    <<fl_seg, fl_region, fl_target, fl_cands, fl_harvested, ledger, fl_seen, fl_out,
      fl_outputs, fl_i, fl_pc, budget_enrich, na_count, emea_count, fl_trace,
      fl_run, fl_upserted>>

(***************************************************************************)
(* Generic helpers                                                         *)
(***************************************************************************)
Max(a, b) == IF a >= b THEN a ELSE b

Min(a, b) == IF a <= b THEN a ELSE b

RECURSIVE Flatten(_)
Flatten(ss) == IF ss = <<>> THEN <<>> ELSE Head(ss) \o Flatten(Tail(ss))

\* faulty variant: a missing key counts as true
Get_absent_true(e, k) == IF k \in DOMAIN e THEN e[k] ELSE TRUE

\* dict.get(key) on a flag: a missing key gives None, which is falsy
Get(e, k) == IF k \in DOMAIN e THEN e[k] ELSE FALSE

\* dict.get(key, "") on a text or URL field
GetSeq(e, k) == IF k \in DOMAIN e THEN e[k] ELSE <<>>

\* evidence[key] = value
Put(e, k, v) == (k :> v) @@ e

(***************************************************************************)
(* Tokens of free text: str.lower(), substring tests and \d+ groups        *)
(***************************************************************************)
\* str.lower() on one token of the vocabulary
Lower(tok) ==
    CASE tok = "Self-Paced" -> "self-paced"
      [] tok = "PMP" -> "pmp"
      [] tok = "Award" -> "award"
      [] tok = "Acme" -> "acme"
      [] OTHER -> tok

LowerText(text) == [i \in 1..Len(text) |-> Lower(text[i])]

\* str.title() on one captured word
Title(tok) ==
    CASE tok = "acme" -> "Acme"
      [] tok = "award" -> "Award"
      [] tok = "university" -> "University"
      [] tok = "corporate" -> "Corporate"
      [] tok = "academy" -> "Academy"
      [] OTHER -> tok

\* the single-word terms a longer token of the vocabulary contains as a substring
SubTerms(tok) ==
    CASE tok = "https://acme.com/calendar" -> {"calendar"}
      [] tok = "https://academy.acme.com" -> {"academy"}
      [] tok = "sessions" -> {"session"}
      [] tok = "instructors" -> {"instructor"}
      [] tok = "courses" -> {"course"}
      [] OTHER -> {}

TokHas(tok, term) == tok = term \/ term \in SubTerms(tok)

\* `term in text` for a term of one or more words (text already lower-cased)
ContainsTerm(text, term) ==
    \E i \in 1..Len(text) :
        /\ i + Len(term) - 1 <= Len(text)
        /\ \A j \in 1..Len(term) : TokHas(text[i + j - 1], term[j])

AnyTerm(text, terms) == \E t \in terms : ContainsTerm(text, t)

\* tokens made of digits only, and int() of them
NumTokens == {"3", "8", "12"}

IntOf(tok) ==
    CASE tok = "3" -> 3
      [] tok = "8" -> 8
      [] tok = "12" -> 12
      [] OTHER -> 0

SetMax(S) == IF S = {} THEN 0 ELSE CHOOSE m \in S : \A x \in S : x <= m

NoResult == [score |-> 0, tier |-> "none", missing |-> <<>>]

ScoreResult(s, t, m) == [score |-> s, tier |-> t, missing |-> m]

(***************************************************************************)
(* src/scoring/healthcare.py                                               *)
(***************************************************************************)
HcProviderOrgPts == 5
HcEhrPts == 40
HcViltPts == 30
HcTrainingPts == 15
HcLargeScalePts == 5
HcConfirmedMin == 60
HcProbableMin == 40

hc_must_ok(e) == Get(e, "ehr_activity") \/ Get(e, "vilt_present")

\* faulty variant: the training_program rule is left out
hc_score_notraining(e) ==
      (IF Get(e, "provider_org") THEN HcProviderOrgPts ELSE 0)
    + (IF Get(e, "ehr_activity") THEN HcEhrPts ELSE 0)
    + (IF Get(e, "vilt_present") THEN HcViltPts ELSE 0)
    + (IF Get(e, "large_scale") THEN HcLargeScalePts ELSE 0)

hc_score(e) ==
      (IF Get(e, "provider_org") THEN HcProviderOrgPts ELSE 0)
    + (IF Get(e, "ehr_activity") THEN HcEhrPts ELSE 0)
    + (IF Get(e, "vilt_present") THEN HcViltPts ELSE 0)
    + (IF Get(e, "training_program") THEN HcTrainingPts ELSE 0)
    + (IF Get(e, "large_scale") THEN HcLargeScalePts ELSE 0)

hc_missing(e) ==
       (IF Get(e, "ehr_activity") THEN <<>> ELSE <<"ehr_activity">>)
    \o (IF Get(e, "vilt_present") THEN <<>> ELSE <<"vilt_present">>)

hc_tier(e) ==
    IF hc_must_ok(e) /\ hc_score(e) >= HcConfirmedMin THEN "Confirmed"
    ELSE IF hc_score(e) >= HcProbableMin THEN "Probable"
    ELSE "Needs Confirmation"

score_healthcare(e) == ScoreResult(hc_score(e), hc_tier(e), hc_missing(e))

(***************************************************************************)
(* src/scoring/corporate.py                                                *)
(***************************************************************************)
\* the trailing \w+ of a token: what a (\w+) group followed by \s+ captures
WordTail(tok) ==
    CASE tok = "self-paced" -> "paced"
      [] tok = "https://acme.com/calendar" -> "calendar"
      [] tok = "https://academy.acme.com" -> "com"
      [] OTHER -> tok

\* positions where r'(\w+)\s+(?:corporate\s+)?academy' matches
AcademyAt(text, i) ==
    \/ i + 1 <= Len(text) /\ TokHas(text[i + 1], "academy")
    \/ i + 2 <= Len(text) /\ text[i + 1] = "corporate" /\ TokHas(text[i + 2], "academy")

\* positions where r'(\w+)\s+university' matches
UniversityAt(text, i) == i + 1 <= Len(text) /\ TokHas(text[i + 1], "university")

\* positions where r'(\w+)\s+<kind>\s+center' matches
CenterAt(text, i, kind) ==
    i + 2 <= Len(text) /\ text[i + 1] = kind /\ TokHas(text[i + 2], "center")

AcademyPatternAt(text, p, i) ==
    CASE p = 1 -> AcademyAt(text, i)
      [] p = 2 -> UniversityAt(text, i)
      [] p = 3 -> CenterAt(text, i, "learning")
      [] p = 4 -> CenterAt(text, i, "training")
      [] OTHER -> CenterAt(text, i, "development")

AcademyPatterns == 1..5

AcademyMatches(text, p) == {i \in 1..Len(text) : AcademyPatternAt(text, p, i)}

\* the characters of a hostname label
Spell(part) ==
    CASE part = "www" -> <<"w", "w", "w">>
      [] part = "acme" -> <<"a", "c", "m", "e">>
      [] part = "com" -> <<"c", "o", "m">>
      [] part = "academy" -> <<"a", "c", "a", "d", "e", "m", "y">>
      [] part = "mayoclinic" -> <<"m", "a", "y", "o", "c", "l", "i", "n", "i", "c">>
      [] part = "org" -> <<"o", "r", "g">>
      [] part = "healthnews" -> <<"h", "e", "a", "l", "t", "h", "n", "e", "w", "s">>
      [] part = "acmenews" -> <<"a", "c", "m", "e", "n", "e", "w", "s">>
      [] part = "bolt" -> <<"b", "o", "l", "t">>
      [] part = "io" -> <<"i", "o">>

\* len(part) of a hostname label
LabelLen(part) == Len(Spell(part))

HostHas(url, term) == \E i \in 1..Len(url) : TokHas(url[i], term)

AcademyHostParts(url) ==
    {i \in 1..Len(url) : url[i] \notin {"www", "academy", "com", "org"} /\ LabelLen(url[i]) > 2}

extract_academy_name(text, url) ==
    LET low == LowerText(text)
        hit == {p \in AcademyPatterns : AcademyMatches(low, p) # {}}
    IN  IF hit # {}
        THEN LET p == CHOOSE q \in hit : \A r \in hit : q <= r
                 i == CHOOSE k \in AcademyMatches(low, p) :
                          \A m \in AcademyMatches(low, p) : k <= m
             IN  <<Title(WordTail(low[i])), "Academy">>
        ELSE IF HostHas(url, "academy") /\ AcademyHostParts(url) # {}
        THEN LET i == CHOOSE k \in AcademyHostParts(url) :
                          \A m \in AcademyHostParts(url) : k <= m
             IN  <<Title(url[i]), "Academy">>
        ELSE <<>>

\* the academy URL patterns of extract_academy_url a URL token of the text matches
UrlTokPatterns(tok) ==
    CASE tok = "https://academy.acme.com" -> {2}
      [] OTHER -> {}

extract_academy_url(text, base_url) ==
    LET low == LowerText(text)
        hits(p) == {i \in 1..Len(low) : p \in UrlTokPatterns(low[i])}
        hit == {p \in 1..4 : hits(p) # {}}
    IN  IF hit # {}
        THEN LET p == CHOOSE q \in hit : \A r \in hit : q <= r
                 i == CHOOSE k \in hits(p) : \A m \in hits(p) : k <= m
             IN  <<low[i]>>
        ELSE IF HostHas(base_url, "academy") \/ HostHas(base_url, "university")
        THEN base_url
        ELSE <<>>

AwardTerms == {<<"top", "125">>, <<"clo">>, <<"atd">>, <<"award">>, <<"recognition">>}

CorpAcademyPts == 50
CorpSizePts == 10
CorpStructuredPts == 15
CorpViltPts == 15
CorpAwardPts == 10
CorpExternalPts == 5
CorpConfirmedMin == 90
CorpProbableMin == 70

corp_academy_name(e) ==
    extract_academy_name(GetSeq(e, "full_text"), GetSeq(e, "evidence_url"))

corp_academy_url(e) ==
    extract_academy_url(GetSeq(e, "full_text"), GetSeq(e, "evidence_url"))

\* the evidence mapping after score_corporate wrote the derived keys
corp_evidence(e) ==
    Put(Put(e, "academy_name", corp_academy_name(e)), "academy_url", corp_academy_url(e))

\* faulty variant: the academy counts only while the evidence has no academy_name key
corp_named_fresh(e) ==
    /\ Get(e, "training_program")
    /\ corp_academy_name(e) # <<>>
    /\ "academy_name" \notin DOMAIN e

corp_named(e) == Get(e, "training_program") /\ corp_academy_name(e) # <<>>

corp_awards(e) == AnyTerm(LowerText(GetSeq(e, "full_text")), AwardTerms)

corp_score(e) ==
      (IF corp_named(e) THEN CorpAcademyPts ELSE 0)
    + (IF Get(e, "large_scale") THEN CorpSizePts ELSE 0)
    + (IF Get(e, "structured_learning") THEN CorpStructuredPts ELSE 0)
    + (IF Get(e, "vilt_present") THEN CorpViltPts ELSE 0)
    + (IF corp_awards(e) THEN CorpAwardPts ELSE 0)
    + (IF Get(e, "external_scope") THEN CorpExternalPts ELSE 0)

\* faulty variant: a failed size rule is not recorded
corp_missing_nosize(e) ==
       (IF corp_named(e) THEN <<>> ELSE <<"named_academy">>)
    \o (IF Get(e, "vilt_present") THEN <<>> ELSE <<"vilt_modality">>)

corp_missing(e) ==
       (IF corp_named(e) THEN <<>> ELSE <<"named_academy">>)
    \o (IF Get(e, "large_scale") THEN <<>> ELSE <<"size_requirement">>)
    \o (IF Get(e, "vilt_present") THEN <<>> ELSE <<"vilt_modality">>)

\* faulty variant: the gate without the size requirement
corp_must_ok_nosize(e) ==
    /\ Get(e, "training_program")
    /\ Get(e, "vilt_present")
    /\ corp_academy_name(e) # <<>>

corp_must_ok(e) ==
    /\ Get(e, "training_program")
    /\ Get(e, "large_scale")
    /\ Get(e, "vilt_present")
    /\ corp_academy_name(e) # <<>>

corp_tier(e) ==
    IF corp_must_ok(e) /\ corp_score(e) >= CorpConfirmedMin THEN "Confirmed"
    ELSE IF corp_score(e) >= CorpProbableMin THEN "Probable"
    ELSE "Needs Confirmation"

score_corporate(e) == ScoreResult(corp_score(e), corp_tier(e), corp_missing(e))

(***************************************************************************)
(* src/scoring/providers.py                                                *)
(***************************************************************************)
IsNum(tok) == tok \in NumTokens

SessionWord(tok) == TokHas(tok, "session")

ClassWord(tok) == TokHas(tok, "session") \/ TokHas(tok, "course") \/ TokHas(tok, "class")

\* the (\d+) groups the four session patterns capture, as integers
SessionCounts(text) ==
    {IntOf(text[i]) : i \in {k \in 1..Len(text) :
        /\ IsNum(text[k])
        /\ \/ /\ k + 2 <= Len(text)
              /\ text[k + 1] \in {"live", "virtual", "online"}
              /\ SessionWord(text[k + 2])
           \/ /\ k + 3 <= Len(text)
              /\ SessionWord(text[k + 1])
              /\ text[k + 2] \in {"per", "each", "every"}
              /\ TokHas(text[k + 3], "month") \/ TokHas(text[k + 3], "week")
           \/ /\ k + 2 <= Len(text)
              /\ text[k + 1] \in {"upcoming", "scheduled"}
              /\ ClassWord(text[k + 2])}}

count_vilt_sessions(text) == SetMax(SessionCounts(LowerText(text)))

\* the schedule URL patterns of extract_vilt_schedule_url a URL token matches
ScheduleTokPatterns(tok) ==
    CASE tok = "https://acme.com/calendar" -> {1}
      [] OTHER -> {}

ScheduleTerms == {<<"upcoming", "sessions">>, <<"schedule">>, <<"calendar">>, <<"register">>}

extract_vilt_schedule_url(text, base_url) ==
    LET low == LowerText(text)
        hits(p) == {i \in 1..Len(low) : p \in ScheduleTokPatterns(low[i])}
        hit == {p \in 1..2 : hits(p) # {}}
    IN  IF hit # {}
        THEN LET p == CHOOSE q \in hit : \A r \in hit : q <= r
                 i == CHOOSE k \in hits(p) : \A m \in hits(p) : k <= m
             IN  <<low[i]>>
        ELSE IF AnyTerm(low, ScheduleTerms)
        THEN base_url
        ELSE <<>>

\* the accreditation patterns, in the order of the list; matched with re.IGNORECASE
AccreditationPatterns ==
    << <<"pmi">>, <<"project", "management", "institute">>, <<"nebosh">>, <<"comptia">>,
       <<"shrm">>, <<"atd">>, <<"iacet">>, <<"six", "sigma">>, <<"pmp">>, <<"cissp">> >>

RECURSIVE AccreditationsFrom(_, _)
AccreditationsFrom(text, p) ==
    IF p > Len(AccreditationPatterns) THEN <<>>
    ELSE LET pat == AccreditationPatterns[p]
             low == LowerText(text)
             found == SelectSeq([i \in 1..Len(text) |-> i],
                        LAMBDA i : /\ i + Len(pat) - 1 <= Len(text)
                                   /\ \A j \in 1..Len(pat) : TokHas(low[i + j - 1], pat[j]))
         IN  [n \in 1..Len(found) |-> text[found[n]]] \o AccreditationsFrom(text, p + 1)

extract_accreditations(text) == AccreditationsFrom(text, 1)

InstructorWord(tok) ==
    TokHas(tok, "instructor") \/ TokHas(tok, "trainer") \/ TokHas(tok, "facilitator")

TrainerWord(tok) == TokHas(tok, "instructor") \/ TokHas(tok, "trainer")

\* the (\d+) groups the three instructor patterns capture, as integers
InstructorCounts(text) ==
    {IntOf(text[i]) : i \in {k \in 1..Len(text) :
        /\ IsNum(text[k])
        /\ \/ k + 1 <= Len(text) /\ InstructorWord(text[k + 1])
           \/ k - 2 >= 1 /\ text[k - 2] \in {"team", "staff"} /\ text[k - 1] = "of"
           \/ /\ k + 2 <= Len(text)
              /\ text[k + 1] \in {"expert", "certified", "experienced"}
              /\ TrainerWord(text[k + 2])}}

LargeTeamTerms == {<<"large", "team">>, <<"extensive">>, <<"numerous">>}

ExpertTeamTerms == {<<"team", "of", "experts">>, <<"experienced", "staff">>}

LargeTeamEstimate == 10
ExpertTeamEstimate == 5

count_instructor_bench(text) ==
    LET low == LowerText(text)
        max_count == SetMax(InstructorCounts(low))
    IN  IF max_count = 0 /\ AnyTerm(low, LargeTeamTerms) THEN LargeTeamEstimate
        ELSE IF max_count = 0 /\ AnyTerm(low, ExpertTeamTerms) THEN ExpertTeamEstimate
        ELSE max_count

RedFlagTerms ==
    { <<"mooc">>, <<"coursera">>, <<"udemy">>, <<"edx">>, <<"khan", "academy">>,
      <<"k-12">>, <<"high", "school">>, <<"elementary">>, <<"sat", "prep">>, <<"gmat", "prep">>,
      <<"self-paced", "only">>, <<"no", "live", "instruction">>, <<"recorded", "only">>,
      <<"micro", "bootcamp">>, <<"1-day", "course">>, <<"2-hour", "session">>,
      <<"consulting", "services">>, <<"advisory", "only">>, <<"strategy", "consulting">> }

has_red_flags(text, url) == AnyTerm(LowerText(text), RedFlagTerms)

EnterpriseTerms ==
    {<<"enterprise", "clients">>, <<"fortune">>, <<"case", "studies">>, <<"success", "stories">>}

GeoTerms == {<<"global">>, <<"international">>, <<"worldwide">>, <<"na", "and", "emea">>}

ProvB2bPts == 20
ProvViltPts == 25
ProvCalendarPts == 20
ProvBenchPts == 15
ProvAccreditationPts == 10
ProvEnterprisePts == 10
ProvGeoPts == 5
MinSessions == 5
MinBench == 5
ProvConfirmedMin == 90
ProvProbableMin == 70

prov_text(e) == GetSeq(e, "full_text")

prov_sessions(e) == count_vilt_sessions(prov_text(e))

prov_schedule_url(e) == extract_vilt_schedule_url(prov_text(e), GetSeq(e, "evidence_url"))

prov_accreditations(e) == extract_accreditations(prov_text(e))

prov_bench(e) == count_instructor_bench(prov_text(e))

prov_red(e) == has_red_flags(prov_text(e), GetSeq(e, "evidence_url"))

\* faulty variant: the derived keys are written before the red-flag check
prov_evidence_always(e) ==
    Put(Put(Put(Put(e, "vilt_sessions_90d", prov_sessions(e)),
                "vilt_schedule_url", prov_schedule_url(e)),
            "accreditations", prov_accreditations(e)),
        "instructor_bench", prov_bench(e))

\* the evidence mapping after score_providers returned
prov_evidence(e) ==
    IF prov_red(e) THEN e
    ELSE Put(Put(Put(Put(e, "vilt_sessions_90d", prov_sessions(e)),
                     "vilt_schedule_url", prov_schedule_url(e)),
                 "accreditations", prov_accreditations(e)),
             "instructor_bench", prov_bench(e))

prov_calendar(e) == prov_schedule_url(e) # <<>> /\ prov_sessions(e) >= MinSessions

prov_bench_ok(e) == prov_bench(e) >= MinBench

prov_score(e) ==
      (IF Get(e, "corporate_focus") THEN ProvB2bPts ELSE 0)
    + (IF Get(e, "virtual_capability") THEN ProvViltPts ELSE 0)
    + (IF prov_calendar(e) THEN ProvCalendarPts ELSE 0)
    + (IF prov_bench_ok(e) THEN ProvBenchPts ELSE 0)
    + (IF prov_accreditations(e) # <<>> THEN ProvAccreditationPts ELSE 0)
    + (IF AnyTerm(LowerText(prov_text(e)), EnterpriseTerms) THEN ProvEnterprisePts ELSE 0)
    + (IF AnyTerm(LowerText(prov_text(e)), GeoTerms) THEN ProvGeoPts ELSE 0)

prov_missing(e) ==
       (IF Get(e, "corporate_focus") THEN <<>> ELSE <<"b2b_focus">>)
    \o (IF Get(e, "virtual_capability") THEN <<>> ELSE <<"vilt_core_offering">>)
    \o (IF prov_calendar(e) THEN <<>> ELSE <<"public_calendar_5plus">>)
    \o (IF prov_bench_ok(e) THEN <<>> ELSE <<"instructor_bench_5plus">>)

\* faulty variant: the gate without the instructor bench
prov_must_ok_nobench(e) ==
    /\ Get(e, "corporate_focus")
    /\ Get(e, "virtual_capability")
    /\ prov_calendar(e)

prov_must_ok(e) ==
    /\ Get(e, "corporate_focus")
    /\ Get(e, "virtual_capability")
    /\ prov_calendar(e)
    /\ prov_bench_ok(e)

prov_tier(e) ==
    IF prov_must_ok(e) /\ prov_score(e) >= ProvConfirmedMin THEN "Confirmed"
    ELSE IF prov_score(e) >= ProvProbableMin THEN "Probable"
    ELSE "Needs Confirmation"

score_providers(e) ==
    IF prov_red(e) THEN ScoreResult(0, "Excluded", <<"red_flags_present">>)
    ELSE ScoreResult(prov_score(e), prov_tier(e), prov_missing(e))

(***************************************************************************)
(* Organization names as character sequences                               *)
(***************************************************************************)
SpaceChars == {" "}

PunctChars == {",", ".", "/", "-", "'"}

\* \w: letters, digits and underscore
IsWordChar(ch) == ch \notin SpaceChars \cup PunctChars

\* str.lower() on one character
UpperAlpha ==
    <<"A", "B", "C", "D", "E", "F", "G", "H", "I", "J", "K", "L", "M",
      "N", "O", "P", "Q", "R", "S", "T", "U", "V", "W", "X", "Y", "Z">>

LowerAlpha ==
    <<"a", "b", "c", "d", "e", "f", "g", "h", "i", "j", "k", "l", "m",
      "n", "o", "p", "q", "r", "s", "t", "u", "v", "w", "x", "y", "z">>

LowerChar(ch) ==
    IF \E i \in 1..Len(UpperAlpha) : UpperAlpha[i] = ch
    THEN LowerAlpha[CHOOSE i \in 1..Len(UpperAlpha) : UpperAlpha[i] = ch]
    ELSE ch

LowerName(s) == [i \in 1..Len(s) |-> LowerChar(s[i])]

RECURSIVE LStrip(_)
LStrip(s) == IF s # <<>> /\ Head(s) \in SpaceChars THEN LStrip(Tail(s)) ELSE s

RECURSIVE RStrip(_)
RStrip(s) ==
    IF s # <<>> /\ s[Len(s)] \in SpaceChars THEN RStrip(SubSeq(s, 1, Len(s) - 1)) ELSE s

\* str.strip()
Strip(s) == LStrip(RStrip(s))

\* re.sub(r'[^\w\s]', ' ', s)
PunctToSpace(s) == [i \in 1..Len(s) |-> IF s[i] \in PunctChars THEN " " ELSE s[i]]

\* re.sub(r'\s+', ' ', s)
RECURSIVE CollapseSpaces(_)
CollapseSpaces(s) ==
    IF s = <<>> THEN <<>>
    ELSE IF Head(s) \in SpaceChars
    THEN <<" ">> \o CollapseSpaces(LStrip(s))
    ELSE <<Head(s)>> \o CollapseSpaces(Tail(s))

\* length of the maximal run of word characters at the head of s
RECURSIVE WordRunLen(_)
WordRunLen(s) == IF s # <<>> /\ IsWordChar(Head(s)) THEN 1 + WordRunLen(Tail(s)) ELSE 0

\* re.sub(r'\b(w1|w2|...)\b', '', s): every maximal run of word characters that is one
\* of the words is deleted; everything else stays in place
RECURSIVE RemoveWords(_, _)
RemoveWords(s, words) ==
    IF s = <<>> THEN <<>>
    ELSE IF IsWordChar(Head(s))
    THEN LET n == WordRunLen(s)
             run == SubSeq(s, 1, n)
         IN  (IF run \in words THEN <<>> ELSE run) \o RemoveWords(SubSeq(s, n + 1, Len(s)), words)
    ELSE <<Head(s)>> \o RemoveWords(Tail(s), words)

(***************************************************************************)
(* src/deduplication/deduplicator.py: normalize_organization_name          *)
(***************************************************************************)
LegalSuffixWords ==
    { <<"i", "n", "c">>,
      <<"l", "l", "c">>,
      <<"l", "t", "d">>,
      <<"c", "o", "r", "p", "o", "r", "a", "t", "i", "o", "n">>,
      <<"c", "o", "r", "p">>,
      <<"c", "o", "m", "p", "a", "n", "y">>,
      <<"c", "o">>,
      <<"l", "i", "m", "i", "t", "e", "d">>,
      <<"i", "n", "c", "o", "r", "p", "o", "r", "a", "t", "e", "d">> }

GenericWords ==
    { <<"h", "e", "a", "l", "t", "h">>,
      <<"h", "e", "a", "l", "t", "h", "c", "a", "r", "e">>,
      <<"m", "e", "d", "i", "c", "a", "l">>,
      <<"c", "e", "n", "t", "e", "r">>,
      <<"c", "l", "i", "n", "i", "c">>,
      <<"h", "o", "s", "p", "i", "t", "a", "l">>,
      <<"s", "y", "s", "t", "e", "m">>,
      <<"g", "r", "o", "u", "p">>,
      <<"a", "s", "s", "o", "c", "i", "a", "t", "e", "s">>,
      <<"p", "a", "r", "t", "n", "e", "r", "s">> }

normalize_organization_name(name) ==
    IF name = <<>> THEN <<>>
    ELSE LET lowered == LowerName(name)
             stripped == RemoveWords(RemoveWords(lowered, LegalSuffixWords), GenericWords)
         IN  Strip(CollapseSpaces(PunctToSpace(stripped)))

(***************************************************************************)
(* evals/organization_uniqueness.py: normalize_organization_name           *)
(***************************************************************************)
\* the suffix patterns r'\s+<word><opt>?$', in the order of the list; opt is the
\* optional last character of the pattern ("" when there is none)
EvalSuffixes ==
    << [word |-> <<"i", "n", "c">>, opt |-> "."],
       [word |-> <<"l", "l", "c">>, opt |-> "."],
       [word |-> <<"c", "o", "r", "p">>, opt |-> "."],
       [word |-> <<"l", "t", "d">>, opt |-> "."],
       [word |-> <<"c", "o", "m", "p", "a", "n", "y">>, opt |-> ""],
       [word |-> <<"c", "o">>, opt |-> "."],
       [word |-> <<"c", "o", "r", "p", "o", "r", "a", "t", "i", "o", "n">>, opt |-> ""],
       [word |-> <<"l", "i", "m", "i", "t", "e", "d">>, opt |-> ""],
       [word |-> <<"g", "r", "o", "u", "p">>, opt |-> ""],
       [word |-> <<"s", "y", "s", "t", "e", "m">>, opt |-> "s"],
       [word |-> <<"s", "o", "l", "u", "t", "i", "o", "n">>, opt |-> "s"],
       [word |-> <<"s", "e", "r", "v", "i", "c", "e">>, opt |-> "s"],
       [word |-> <<"i", "n", "t", "e", "r", "n", "a", "t", "i", "o", "n", "a", "l">>, opt |-> ""],
       [word |-> <<"g", "l", "o", "b", "a", "l">>, opt |-> ""],
       [word |-> <<"w", "o", "r", "l", "d", "w", "i", "d", "e">>, opt |-> ""],
       [word |-> <<"h", "e", "a", "l", "t", "h", "c", "a", "r", "e">>, opt |-> ""],
       [word |-> <<"h", "e", "a", "l", "t", "h">>, opt |-> ""],
       [word |-> <<"m", "e", "d", "i", "c", "a", "l">>, opt |-> ""],
       [word |-> <<"h", "o", "s", "p", "i", "t", "a", "l">>, opt |-> ""],
       [word |-> <<"t", "r", "a", "i", "n", "i", "n", "g">>, opt |-> ""],
       [word |-> <<"a", "c", "a", "d", "e", "m", "y">>, opt |-> ""],
       [word |-> <<"u", "n", "i", "v", "e", "r", "s", "i", "t", "y">>, opt |-> ""],
       [word |-> <<"i", "n", "s", "t", "i", "t", "u", "t", "e">>, opt |-> ""] >>

EndsWith(s, w) == Len(s) >= Len(w) /\ SubSeq(s, Len(s) - Len(w) + 1, Len(s)) = w

\* re.sub(r'\s+<w>$', '', s) for one literal w
StripLiteralSuffix(s, w) ==
    IF /\ EndsWith(s, w)
       /\ Len(s) > Len(w)
       /\ s[Len(s) - Len(w)] \in SpaceChars
    THEN RStrip(SubSeq(s, 1, Len(s) - Len(w)))
    ELSE s

\* re.sub(r'\s+<word><opt>?$', '', s)
StripSuffix(s, suf) ==
    IF suf.opt # "" /\ StripLiteralSuffix(s, suf.word \o <<suf.opt>>) # s
    THEN StripLiteralSuffix(s, suf.word \o <<suf.opt>>)
    ELSE StripLiteralSuffix(s, suf.word)

RECURSIVE StripSuffixesFrom(_, _)
StripSuffixesFrom(s, k) ==
    IF k > Len(EvalSuffixes) \/ s = <<>> THEN s
    ELSE StripSuffixesFrom(StripSuffix(s, EvalSuffixes[k]), k + 1)

eval_normalize_organization_name(name) ==
    IF name = <<>> THEN <<>>
    ELSE LET lowered == Strip(LowerName(name))
             stripped == StripSuffixesFrom(lowered, 1)
         IN  Strip(CollapseSpaces(PunctToSpace(stripped)))


(***************************************************************************)
(* difflib.SequenceMatcher(None, a, b).ratio(), as an exact fraction       *)
(***************************************************************************)
\* length of the common run of a[i..ahi] and b[j..bhi] that starts at i and j
RECURSIVE CommonLen(_, _, _, _, _, _)
CommonLen(a, b, i, ahi, j, bhi) ==
    IF i <= ahi /\ j <= bhi /\ a[i] = b[j]
    THEN 1 + CommonLen(a, b, i + 1, ahi, j + 1, bhi)
    ELSE 0

\* find_longest_match: the longest block; of those the earliest in a, then in b
find_longest_match(a, b, alo, ahi, blo, bhi) ==
    LET cands == {<<i, j, CommonLen(a, b, i, ahi, j, bhi)>> : i \in alo..ahi, j \in blo..bhi}
        best == CHOOSE m \in cands : \A c \in cands :
                    \/ m[3] > c[3]
                    \/ m[3] = c[3] /\ m[1] < c[1]
                    \/ m[3] = c[3] /\ m[1] = c[1] /\ m[2] <= c[2]
    IN  best

\* the total size of get_matching_blocks over a[alo..ahi] and b[blo..bhi]
RECURSIVE MatchingSize(_, _, _, _, _, _)
MatchingSize(a, b, alo, ahi, blo, bhi) ==
    IF alo > ahi \/ blo > bhi THEN 0
    ELSE LET m == find_longest_match(a, b, alo, ahi, blo, bhi)
         IN  IF m[3] = 0 THEN 0
             ELSE m[3]
                  + MatchingSize(a, b, alo, m[1] - 1, blo, m[2] - 1)
                  + MatchingSize(a, b, m[1] + m[3], ahi, m[2] + m[3], bhi)

Frac(n, d) == [n |-> n, d |-> d]

\* ratio() = 2.0 * matches / (len(a) + len(b)), and 1.0 when both are empty
SeqRatio(a, b) ==
    IF Len(a) + Len(b) = 0 THEN Frac(1, 1)
    ELSE Frac(2 * MatchingSize(a, b, 1, Len(a), 1, Len(b)), Len(a) + Len(b))

\* set(s.split())
RECURSIVE NonSpaceRunLen(_)
NonSpaceRunLen(s) ==
    IF s # <<>> /\ Head(s) \notin SpaceChars THEN 1 + NonSpaceRunLen(Tail(s)) ELSE 0

RECURSIVE WordSet(_)
WordSet(s) ==
    IF s = <<>> THEN {}
    ELSE IF Head(s) \in SpaceChars THEN WordSet(Tail(s))
    ELSE LET n == NonSpaceRunLen(s)
         IN  {SubSeq(s, 1, n)} \cup WordSet(SubSeq(s, n + 1, Len(s)))

(***************************************************************************)
(* src/deduplication/deduplicator.py: similarity and conflict resolution   *)
(***************************************************************************)
calculate_similarity(name1, name2) ==
    IF name1 = <<>> \/ name2 = <<>> THEN Frac(0, 1)
    ELSE LET norm1 == normalize_organization_name(name1)
             norm2 == normalize_organization_name(name2)
             base == SeqRatio(norm1, norm2)
             words1 == WordSet(norm1)
             words2 == WordSet(norm2)
             larger == Max(Cardinality(words1), Cardinality(words2))
             shared == Cardinality(words1 \cap words2)
         IN  IF norm1 = norm2 THEN Frac(1, 1)
             ELSE IF words1 # {} /\ words2 # {}
             THEN Frac(base.n * larger + shared * base.d, 2 * base.d * larger)
             ELSE base

\* similarity >= threshold, the threshold given in hundredths
AtLeast(sim, pct) == sim.n * 100 >= pct * sim.d

\* org.get(field, '')
Field(org, f) == IF f \in DOMAIN org THEN org[f] ELSE <<>>

Placeholders == {<<>>, <<"n", "a">>, <<"n", "/", "a">>, <<"n", "o", "n", "e">>}

FieldFilled(org, f) ==
    LET value == Strip(Field(org, f))
    IN  value # <<>> /\ LowerName(value) \notin Placeholders

RequiredFields == {"organization", "region", "evidence_url"}

OptionalFields == {"tier", "score", "notes"}

RequiredWeight == 2

\* _calculate_completeness_score: the numerator; the divisor is the same for every org
CompletenessPoints(org) ==
      RequiredWeight * Cardinality({f \in RequiredFields : FieldFilled(org, f)})
    + Cardinality({f \in OptionalFields : FieldFilled(org, f)})

calculate_completeness_score(org) ==
    Frac(CompletenessPoints(org),
         Cardinality(RequiredFields) * RequiredWeight + Cardinality(OptionalFields))

\* faulty variant: a pair is flagged when its similarity is below the threshold
Flagged_below(orgs, i, j, pct) ==
    ~AtLeast(calculate_similarity(Field(orgs[i], "organization"),
                                  Field(orgs[j], "organization")), pct)

\* the pair (i, j) is flagged at this threshold
Flagged(orgs, i, j, pct) ==
    AtLeast(calculate_similarity(Field(orgs[i], "organization"),
                                 Field(orgs[j], "organization")), pct)

RECURSIVE FindFrom(_, _, _, _)
FindFrom(orgs, i, j, pct) ==
    IF i > Len(orgs) THEN <<>>
    ELSE IF j > Len(orgs) THEN FindFrom(orgs, i + 1, i + 2, pct)
    ELSE (IF Flagged(orgs, i, j, pct)
          THEN << <<i, j, calculate_similarity(Field(orgs[i], "organization"),
                                               Field(orgs[j], "organization"))>> >>
          ELSE <<>>)
         \o FindFrom(orgs, i, j + 1, pct)

\* find_duplicates: the flagged pairs (i, j, similarity), i ascending then j ascending
find_duplicates(orgs, pct) == FindFrom(orgs, 1, 2, pct)

\* faulty variant: score1 > score2
LeftWins_strict(org1, org2) ==
    LET s1 == calculate_completeness_score(org1)
        s2 == calculate_completeness_score(org2)
    IN  s1.n * s2.d > s2.n * s1.d

\* score1 >= score2: the left organization wins the conflict
LeftWins(org1, org2) ==
    LET s1 == calculate_completeness_score(org1)
        s2 == calculate_completeness_score(org2)
    IN  s1.n * s2.d >= s2.n * s1.d

\* faulty variant: the similarity is recorded under the evicted organization's name
ResolvePair_losername(orgs, st, pair) ==
    LET idx1 == pair[1]
        idx2 == pair[2]
    IN  IF idx1 \notin st.keep \/ idx2 \notin st.keep
        THEN [st EXCEPT !.log = Append(@, 0)]
        ELSE IF LeftWins(orgs[idx1], orgs[idx2])
        THEN [keep |-> st.keep \ {idx2},
              conf |-> Put(st.conf, Field(orgs[idx2], "organization"), pair[3]),
              log |-> Append(st.log, idx2)]
        ELSE [keep |-> st.keep \ {idx1},
              conf |-> Put(st.conf, Field(orgs[idx1], "organization"), pair[3]),
              log |-> Append(st.log, idx1)]

\* one iteration of the loop over the duplicates: st = [keep, conf, log]
ResolvePair(orgs, st, pair) ==
    LET idx1 == pair[1]
        idx2 == pair[2]
    IN  IF idx1 \notin st.keep \/ idx2 \notin st.keep
        THEN [st EXCEPT !.log = Append(@, 0)]
        ELSE IF LeftWins(orgs[idx1], orgs[idx2])
        THEN [keep |-> st.keep \ {idx2},
              conf |-> Put(st.conf, Field(orgs[idx1], "organization"), pair[3]),
              log |-> Append(st.log, idx2)]
        ELSE [keep |-> st.keep \ {idx1},
              conf |-> Put(st.conf, Field(orgs[idx2], "organization"), pair[3]),
              log |-> Append(st.log, idx1)]

RECURSIVE ResolveFrom(_, _, _, _)
ResolveFrom(orgs, dups, k, st) ==
    IF k > Len(dups) THEN st
    ELSE ResolveFrom(orgs, dups, k + 1, ResolvePair(orgs, st, dups[k]))

StartState(orgs) == [keep |-> 1..Len(orgs), conf |-> <<>>, log |-> <<>>]

\* faulty variant: the kept organizations in descending index order
KeptOrgs_reversed(orgs, keep) ==
    LET idx == SelectSeq([i \in 1..Len(orgs) |-> i], LAMBDA i : i \in keep)
    IN  [n \in 1..Len(idx) |-> orgs[idx[Len(idx) + 1 - n]]]

\* [organizations[i] for i in sorted(to_keep)]
KeptOrgs(orgs, keep) ==
    LET idx == SelectSeq([i \in 1..Len(orgs) |-> i], LAMBDA i : i \in keep)
    IN  [n \in 1..Len(idx) |-> orgs[idx[n]]]

DeduplicationResult(orgs, st) ==
    [unique_organizations |-> KeptOrgs(orgs, st.keep),
     duplicates_removed |-> Len(orgs) - Len(KeptOrgs(orgs, st.keep)),
     confidence_scores |-> st.conf]

deduplicate_organizations(orgs, pct) ==
    IF orgs = <<>>
    THEN [unique_organizations |-> <<>>, duplicates_removed |-> 0, confidence_scores |-> <<>>]
    ELSE DeduplicationResult(orgs,
             ResolveFrom(orgs, find_duplicates(orgs, pct), 1, StartState(orgs)))


(***************************************************************************)
(* Hostnames and character-level substring tests                           *)
(***************************************************************************)
\* `sub in s`
Contains(s, sub) ==
    \E i \in 0..(Len(s) - Len(sub)) : SubSeq(s, i + 1, i + Len(sub)) = sub

ContainsAny(s, subs) == \E sub \in subs : Contains(s, sub)

(***************************************************************************)
(* evals/organization_uniqueness.py: calculate_similarity                  *)
(***************************************************************************)
\* the larger of two fractions; the first when they are equal
FracMax(f, g) == IF f.n * g.d >= g.n * f.d THEN f ELSE g

ContainmentBoostPct == 80
OverlapMinPct == 80
OverlapBoostPct == 90

\* similarity = max(similarity, 0.8) if norm1 in norm2 or norm2 in norm1
ContainmentBoosted(norm1, norm2, sim) ==
    IF Contains(norm2, norm1) \/ Contains(norm1, norm2)
    THEN FracMax(sim, Frac(ContainmentBoostPct, 100))
    ELSE sim

\* similarity = max(similarity, 0.9) if at least 80% of the words of the shorter overlap
OverlapBoosted(norm1, norm2, sim) ==
    LET words1 == WordSet(norm1)
        words2 == WordSet(norm2)
        smaller == Min(Cardinality(words1), Cardinality(words2))
        shared == Cardinality(words1 \cap words2)
    IN  IF words1 # {} /\ words2 # {} /\ shared * 100 >= OverlapMinPct * smaller
        THEN FracMax(sim, Frac(OverlapBoostPct, 100))
        ELSE sim

eval_similarity_of(norm1, norm2) ==
    IF norm1 = <<>> \/ norm2 = <<>> THEN Frac(0, 1)
    ELSE IF norm1 = norm2 THEN Frac(1, 1)
    ELSE OverlapBoosted(norm1, norm2,
             ContainmentBoosted(norm1, norm2, SeqRatio(norm1, norm2)))

eval_calculate_similarity(name1, name2) ==
    eval_similarity_of(eval_normalize_organization_name(name1),
                       eval_normalize_organization_name(name2))

(***************************************************************************)
(* evals/organization_uniqueness.py: find_potential_duplicates and         *)
(* evaluate_organization_uniqueness                                        *)
(***************************************************************************)
PotentialThresholdPct == 85
HighConfidencePct == 95
MediumConfidencePct == 85
HighPenalty == 2
SampleSize == 5
DetailSize == 3

RECURSIVE PotentialFrom(_, _, _, _)
PotentialFrom(organizations, i, j, pct) ==
    IF i > Len(organizations) THEN <<>>
    ELSE IF j > Len(organizations) THEN PotentialFrom(organizations, i + 1, i + 2, pct)
    ELSE (IF AtLeast(eval_calculate_similarity(organizations[i], organizations[j]), pct)
          THEN << <<organizations[i], organizations[j],
                    eval_calculate_similarity(organizations[i], organizations[j])>> >>
          ELSE <<>>)
         \o PotentialFrom(organizations, i, j + 1, pct)

\* the pairs (name_i, name_j, similarity), i < j, with similarity >= threshold
find_potential_duplicates(organizations, pct) == PotentialFrom(organizations, 1, 2, pct)

\* faulty variant: the cell is not stripped
org_name_of_unstripped(row) ==
    IF GetSeq(row, "Organization") # <<>> THEN row["Organization"] ELSE GetSeq(row, "Company")

\* (row.get('Organization') or row.get('Company') or '').strip()
org_name_of(row) ==
    Strip(IF GetSeq(row, "Organization") # <<>> THEN row["Organization"]
          ELSE GetSeq(row, "Company"))

\* the names the reading loop collects: the non-empty ones, in row order
organizations_of(rows) ==
    SelectSeq([k \in 1..Len(rows) |-> org_name_of(rows[k])], LAMBDA name : name # <<>>)

FracSub(f, g) == Frac(f.n * g.d - g.n * f.d, f.d * g.d)

FracTimes(f, k) == Frac(f.n * k, f.d)

\* f"{similarity:.2f}" as a number of hundredths, a tie rounded to the even one
Hundredths(sim) ==
    LET whole == (sim.n * 100) \div sim.d
        rest == 2 * ((sim.n * 100) % sim.d)
    IN  IF rest > sim.d \/ (rest = sim.d /\ whole % 2 = 1) THEN whole + 1 ELSE whole

FirstOf(seq, n) == SubSeq(seq, 1, Min(n, Len(seq)))

duplicate_detail(d) ==
    [org1 |-> d[1], org2 |-> d[2], similarity |-> Hundredths(d[3]),
     normalized1 |-> eval_normalize_organization_name(d[1]),
     normalized2 |-> eval_normalize_organization_name(d[2])]

\* faulty variant: a high-confidence pair weighs as much as a medium one
penalty_of_flat(high, medium, total) == Frac(high + medium, total)

\* (len(high_confidence_dupes) * 2 + len(medium_confidence_dupes)) / len(organizations)
penalty_of(high, medium, total) == Frac(high * HighPenalty + medium, total)

\* max(0, uniqueness_ratio - penalty)
final_score_of(uniqueness_ratio, penalty) ==
    FracMax(Frac(0, 1), FracSub(uniqueness_ratio, penalty))

ErrorResult(message) == [score |-> Frac(0, 1), details |-> [error |-> message]]

\* the tuple returned for a non-empty list of names
UniquenessResult(organizations, duplicates) ==
    LET unique_orgs ==
            Cardinality({eval_normalize_organization_name(organizations[k]) :
                             k \in 1..Len(organizations)})
        uniqueness_ratio == Frac(unique_orgs, Len(organizations))
        high == Len(SelectSeq(duplicates, LAMBDA d : AtLeast(d[3], HighConfidencePct)))
        medium == Len(SelectSeq(duplicates,
                                LAMBDA d : /\ AtLeast(d[3], MediumConfidencePct)
                                           /\ ~AtLeast(d[3], HighConfidencePct)))
        final_score ==
            final_score_of(uniqueness_ratio, penalty_of(high, medium, Len(organizations)))
    IN  [score |-> final_score,
         details |->
             [total_organizations |-> Len(organizations),
              unique_normalized |-> unique_orgs,
              uniqueness_ratio |-> FracTimes(uniqueness_ratio, 100),
              potential_duplicates |-> Len(duplicates),
              high_confidence_duplicates |-> high,
              medium_confidence_duplicates |-> medium,
              final_score |-> FracTimes(final_score, 100),
              sample_duplicates |-> FirstOf(duplicates, SampleSize),
              duplicate_details |->
                  [k \in 1..Min(DetailSize, Len(duplicates)) |->
                      duplicate_detail(duplicates[k])]]]

evaluate_organization_uniqueness(file, rows) ==
    IF file = "missing" THEN ErrorResult("CSV file not found")
    ELSE IF file = "unreadable" THEN ErrorResult("Error reading CSV")
    ELSE IF organizations_of(rows) = <<>>
    THEN ErrorResult("No organization names found in CSV")
    ELSE UniquenessResult(organizations_of(rows),
                          find_potential_duplicates(organizations_of(rows),
                                                    PotentialThresholdPct))

\* parsed.hostname of a URL: its labels joined by dots
RECURSIVE Hostname(_)
Hostname(url) ==
    IF url = <<>> THEN <<>>
    ELSE IF Len(url) = 1 THEN Spell(url[1])
    ELSE Spell(url[1]) \o <<".">> \o Hostname(Tail(url))

\* hostname.replace('www.', '')
RECURSIVE DropWww(_)
DropWww(s) ==
    IF s = <<>> THEN <<>>
    ELSE IF Len(s) >= 4 /\ SubSeq(s, 1, 4) = <<"w", "w", "w", ".">> THEN DropWww(SubSeq(s, 5, Len(s)))
    ELSE <<Head(s)>> \o DropWww(Tail(s))

Domain(url) == DropWww(Hostname(url))

\* re.findall(r'\w+', s), as a set
RECURSIVE WordRuns(_)
WordRuns(s) ==
    IF s = <<>> THEN {}
    ELSE IF IsWordChar(Head(s))
    THEN LET n == WordRunLen(s)
         IN  {SubSeq(s, 1, n)} \cup WordRuns(SubSeq(s, n + 1, Len(s)))
    ELSE WordRuns(Tail(s))

MinOrgWordLen == 3

(***************************************************************************)
(* src/flows/healthcare_flow.py: domain authority                          *)
(***************************************************************************)
HcAggregatorDomains ==
    { <<"b", "e", "c", "k", "e", "r", "s", "h", "o", "s", "p", "i", "t", "a", "l", "r", "e", "v", "i", "e", "w", ".", "c", "o", "m">>,
      <<"h", "e", "a", "l", "t", "h", "c", "a", "r", "e", "i", "t", "n", "e", "w", "s", ".", "c", "o", "m">>,
      <<"h", "c", "i", "n", "n", "o", "v", "a", "t", "i", "o", "n", "g", "r", "o", "u", "p", ".", "c", "o", "m">>,
      <<"n", "e", "w", "s", "w", "e", "e", "k", ".", "c", "o", "m">>,
      <<"f", "o", "r", "b", "e", "s", ".", "c", "o", "m">>,
      <<"b", "l", "o", "o", "m", "b", "e", "r", "g", ".", "c", "o", "m">>,
      <<"r", "e", "u", "t", "e", "r", "s", ".", "c", "o", "m">>,
      <<"m", "o", "d", "e", "r", "n", "h", "e", "a", "l", "t", "h", "c", "a", "r", "e", ".", "c", "o", "m">>,
      <<"f", "i", "e", "r", "c", "e", "h", "e", "a", "l", "t", "h", "c", "a", "r", "e", ".", "c", "o", "m">>,
      <<"h", "e", "a", "l", "t", "h", "l", "e", "a", "d", "e", "r", "s", "m", "e", "d", "i", "a", ".", "c", "o", "m">> }

HcAggregatorPatterns ==
    { <<"n", "e", "w", "s">>,
      <<"b", "l", "o", "g">>,
      <<"p", "r", "e", "s", "s">>,
      <<"m", "e", "d", "i", "a">>,
      <<"r", "e", "v", "i", "e", "w">>,
      <<"r", "e", "p", "o", "r", "t">>,
      <<"m", "a", "g", "a", "z", "i", "n", "e">>,
      <<"j", "o", "u", "r", "n", "a", "l">>,
      <<"t", "i", "m", "e", "s">>,
      <<"p", "o", "s", "t">>,
      <<"h", "e", "r", "a", "l", "d">>,
      <<"g", "a", "z", "e", "t", "t", "e">>,
      <<"t", "r", "i", "b", "u", "n", "e">> }

hc_is_aggregator_domain(url) ==
    IF Hostname(url) = <<>> THEN FALSE
    ELSE Domain(url) \in HcAggregatorDomains \/ ContainsAny(Domain(url), HcAggregatorPatterns)

HcCommonWords ==
    { <<"h", "e", "a", "l", "t", "h">>,
      <<"c", "a", "r", "e">>,
      <<"m", "e", "d", "i", "c", "a", "l">>,
      <<"h", "o", "s", "p", "i", "t", "a", "l">>,
      <<"s", "y", "s", "t", "e", "m">> }

HealthcareTlds ==
    { <<".", "o", "r", "g">>,
      <<".", "e", "d", "u">>,
      <<".", "g", "o", "v">>,
      <<".", "n", "h", "s", ".", "u", "k">>,
      <<".", "c", "a">> }

hc_is_primary_domain(url, org_name) ==
    IF Hostname(url) = <<>> THEN FALSE
    ELSE LET org_words == {w \in WordRuns(LowerName(org_name)) :
                              Len(w) > MinOrgWordLen /\ w \notin HcCommonWords}
         IN  \/ \E w \in org_words : Contains(Domain(url), w)
             \/ ContainsAny(Domain(url), HealthcareTlds) /\ ~hc_is_aggregator_domain(url)

(***************************************************************************)
(* src/flows/corporate_flow_stub.py, providers_flow_stub.py: domain        *)
(* authority (the two files define the same two functions)                 *)
(***************************************************************************)
AggregatorDomains ==
    { <<"f", "o", "r", "b", "e", "s", ".", "c", "o", "m">>,
      <<"b", "l", "o", "o", "m", "b", "e", "r", "g", ".", "c", "o", "m">>,
      <<"r", "e", "u", "t", "e", "r", "s", ".", "c", "o", "m">>,
      <<"n", "e", "w", "s", "w", "e", "e", "k", ".", "c", "o", "m">>,
      <<"m", "e", "d", "i", "u", "m", ".", "c", "o", "m">>,
      <<"h", "b", "r", ".", "o", "r", "g">>,
      <<"l", "i", "n", "k", "e", "d", "i", "n", ".", "c", "o", "m">>,
      <<"t", "w", "i", "t", "t", "e", "r", ".", "c", "o", "m">>,
      <<"f", "a", "c", "e", "b", "o", "o", "k", ".", "c", "o", "m">>,
      <<"y", "o", "u", "t", "u", "b", "e", ".", "c", "o", "m">>,
      <<"c", "r", "u", "n", "c", "h", "b", "a", "s", "e", ".", "c", "o", "m">>,
      <<"g", "a", "r", "t", "n", "e", "r", ".", "c", "o", "m">>,
      <<"g", "2", ".", "c", "o", "m">>,
      <<"c", "a", "p", "t", "e", "r", "r", "a", ".", "c", "o", "m">> }

AggregatorPatterns ==
    { <<"n", "e", "w", "s">>,
      <<"b", "l", "o", "g">>,
      <<"p", "r", "e", "s", "s">>,
      <<"m", "e", "d", "i", "a">>,
      <<"r", "e", "v", "i", "e", "w">>,
      <<"r", "e", "p", "o", "r", "t">>,
      <<"m", "a", "g", "a", "z", "i", "n", "e">> }

is_aggregator_domain(url) ==
    IF Hostname(url) = <<>> THEN FALSE
    ELSE Domain(url) \in AggregatorDomains \/ ContainsAny(Domain(url), AggregatorPatterns)

is_primary_domain(url, org_name) ==
    IF Hostname(url) = <<>> THEN FALSE
    ELSE \E w \in WordRuns(LowerName(org_name)) :
             Len(w) > MinOrgWordLen /\ Contains(Domain(url), w)

(***************************************************************************)
(* src/definitions/icp_definitions.py                                      *)
(***************************************************************************)
ArticlePatterns ==
    { <<"t", "o", "p", " ">>,
      <<"b", "e", "s", "t", " ">>,
      <<"l", "i", "s", "t", " ", "o", "f">>,
      <<"g", "u", "i", "d", "e", " ", "t", "o">>,
      <<"h", "o", "w", " ", "t", "o">>,
      <<"w", "h", "y", " ">>,
      <<"w", "h", "a", "t", " ">>,
      <<"w", "h", "e", "n", " ">>,
      <<"w", "h", "e", "r", "e", " ">>,
      <<"r", "e", "p", "o", "r", "t">>,
      <<"a", "n", "n", "o", "u", "n", "c", "e", "s">>,
      <<"l", "a", "u", "n", "c", "h", "e", "s">>,
      <<"i", "m", "p", "l", "e", "m", "e", "n", "t", "s">>,
      <<"n", "e", "w", "s">> }

HealthcareSearchPatterns ==
    { <<"h", "o", "s", "p", "i", "t", "a", "l">>,
      <<"h", "e", "a", "l", "t", "h", " ", "s", "y", "s", "t", "e", "m">>,
      <<"m", "e", "d", "i", "c", "a", "l", " ", "c", "e", "n", "t", "e", "r">>,
      <<"h", "e", "a", "l", "t", "h", "c", "a", "r", "e", " ", "p", "r", "o", "v", "i", "d", "e", "r">>,
      <<"c", "l", "i", "n", "i", "c">>,
      <<"h", "e", "a", "l", "t", "h", " ", "n", "e", "t", "w", "o", "r", "k">>,
      <<"h", "e", "a", "l", "t", "h", "c", "a", "r", "e", " ", "o", "r", "g", "a", "n", "i", "z", "a", "t", "i", "o", "n">>,
      <<"I", "D", "N">>,
      <<"a", "c", "a", "d", "e", "m", "i", "c", " ", "m", "e", "d", "i", "c", "a", "l", " ", "c", "e", "n", "t", "e", "r">>,
      <<"A", "M", "C">>,
      <<"i", "n", "t", "e", "g", "r", "a", "t", "e", "d", " ", "d", "e", "l", "i", "v", "e", "r", "y", " ", "n", "e", "t", "w", "o", "r", "k">> }

HealthcareExamples ==
    { <<"I", "n", "t", "e", "r", "m", "o", "u", "n", "t", "a", "i", "n", " ", "H", "e", "a", "l", "t", "h">>,
      <<"M", "a", "y", "o", " ", "C", "l", "i", "n", "i", "c">>,
      <<"C", "l", "e", "v", "e", "l", "a", "n", "d", " ", "C", "l", "i", "n", "i", "c">>,
      <<"K", "a", "i", "s", "e", "r", " ", "P", "e", "r", "m", "a", "n", "e", "n", "t", "e">>,
      <<"N", "o", "r", "t", "h", "w", "e", "l", "l", " ", "H", "e", "a", "l", "t", "h">>,
      <<"A", "d", "v", "o", "c", "a", "t", "e", " ", "A", "u", "r", "o", "r", "a", " ", "H", "e", "a", "l", "t", "h">>,
      <<"P", "r", "o", "v", "i", "d", "e", "n", "c", "e", " ", "S", "t", ".", " ", "J", "o", "s", "e", "p", "h", " ", "H", "e", "a", "l", "t", "h">>,
      <<"S", "u", "t", "t", "e", "r", " ", "H", "e", "a", "l", "t", "h">>,
      <<"U", "C", "H", "e", "a", "l", "t", "h">>,
      <<"A", "t", "r", "i", "u", "m", " ", "H", "e", "a", "l", "t", "h">> }

\* is_organization_name(text, "healthcare")
is_organization_name(name) ==
    LET text_lower == LowerName(name)
    IN  /\ ~ContainsAny(text_lower, ArticlePatterns)
        /\ \/ ContainsAny(text_lower, HealthcareSearchPatterns)
           \/ \E ex \in HealthcareExamples : Contains(text_lower, LowerName(ex))

\* the healthcare disqualifier phrases, searched in the lower-cased text of the candidate
HealthcareDisqualifiers ==
    { <<"payers/insurance", "companies">>, <<"pharmaceutical", "companies">>,
      <<"medical", "device", "manufacturers">>, <<"async-only", "training">>,
      <<"single", "department", "pilots">>, <<"micro", "practices", "(<50", "employees)">>,
      <<"vendors/consultants", "(not", "providers)">> }

\* validate_against_icp(c, "healthcare").get("valid", True)
validate_against_icp(c) ==
    ~AnyTerm(LowerText(GetSeq(c.evidence, "full_text")), HealthcareDisqualifiers)


(***************************************************************************)
(* Scorer harness: an evidence mapping as harvest may produce it, scored   *)
(* one or more times by its segment's scorer.                              *)
(***************************************************************************)
MaxCalls == 2

HealthcareFlags ==
    {"provider_org", "ehr_activity", "vilt_present", "training_program", "large_scale"}

CorporateFlags ==
    {"training_program", "large_scale", "structured_learning", "vilt_present", "external_scope"}

ProvidersFlags == {"corporate_focus", "virtual_capability"}

\* every mapping that has some of the flags, each true or false
FlagMaps(F) == UNION {[D -> BOOLEAN] : D \in SUBSET F}

CorpPhrases ==
    << <<"Acme", "academy">>, <<"Award">>, <<"university">>, <<"https://academy.acme.com">> >>

ProvPhrases ==
    << <<"Self-Paced", "only">>, <<"12", "live", "sessions">>, <<"3", "upcoming", "courses">>,
       <<"schedule">>, <<"https://acme.com/calendar">>, <<"8", "instructors">>,
       <<"extensive">>, <<"PMP">>, <<"fortune">>, <<"global">> >>

\* the text made of the chosen phrases, in the order of the list
TextOf(phrases, S) ==
    Flatten(SelectSeq([i \in 1..Len(phrases) |-> IF i \in S THEN phrases[i] ELSE <<>>],
                      LAMBDA ph : ph # <<>>))

Texts(phrases) == {TextOf(phrases, S) : S \in SUBSET (1..Len(phrases))}

TextMaps(phrases) == {<<>>} \cup {("full_text" :> t) : t \in Texts(phrases)}

UrlMaps(urls) == {<<>>} \cup {("evidence_url" :> u) : u \in urls}

CorpUrls == {<<"www", "acme", "com">>, <<"academy", "acme", "com">>}

ProvUrls == {<<"www", "acme", "com">>}

HealthcareEvidence == FlagMaps(HealthcareFlags)

CorporateEvidence ==
    {f @@ t @@ u : f \in FlagMaps(CorporateFlags), t \in TextMaps(CorpPhrases), u \in UrlMaps(CorpUrls)}

ProvidersEvidence ==
    {f @@ t @@ u : f \in FlagMaps(ProvidersFlags), t \in TextMaps(ProvPhrases), u \in UrlMaps(ProvUrls)}

ScoreInit ==
    /\ scorer \in {"healthcare", "corporate", "providers"}
    /\ evidence \in CASE scorer = "healthcare" -> HealthcareEvidence
                      [] scorer = "corporate" -> CorporateEvidence
                      [] OTHER -> ProvidersEvidence
    /\ ev_before = evidence
    /\ result = NoResult
    /\ calls = 0

ScoreIdle ==
    /\ scorer = "none"
    /\ evidence = <<>>
    /\ ev_before = <<>>
    /\ result = NoResult
    /\ calls = 0

CallHealthcare ==
    /\ scorer = "healthcare"
    /\ calls < MaxCalls
    /\ result' = score_healthcare(evidence)
    /\ ev_before' = evidence
    /\ calls' = calls + 1
    /\ UNCHANGED <<scorer, evidence>>

CallCorporate ==
    /\ scorer = "corporate"
    /\ calls < MaxCalls
    /\ result' = score_corporate(evidence)
    /\ evidence' = corp_evidence(evidence)
    /\ ev_before' = evidence
    /\ calls' = calls + 1
    /\ UNCHANGED scorer

CallProviders ==
    /\ scorer = "providers"
    /\ calls < MaxCalls
    /\ result' = score_providers(evidence)
    /\ evidence' = prov_evidence(evidence)
    /\ ev_before' = evidence
    /\ calls' = calls + 1
    /\ UNCHANGED scorer

(***************************************************************************)
(* Normaliser harness: a name, normalised one or more times by one of the  *)
(* two normalisers, each pass applied to the output of the pass before.    *)
(***************************************************************************)
MaxNameLen == 4
MaxPasses == 2

NameChars == {"c", "o", "x", "C", " ", ","}

NamesUpTo(n) == UNION {[1..k -> NameChars] : k \in 0..n}

NormInit ==
    /\ nm_which \in {"dedup", "eval"}
    /\ nm_in \in NamesUpTo(MaxNameLen)
    /\ nm_out = <<>>

NormIdle ==
    /\ nm_which = "none"
    /\ nm_in = <<>>
    /\ nm_out = <<>>

NormInput == IF nm_out = <<>> THEN nm_in ELSE nm_out[Len(nm_out)]

NormalizeDedup ==
    /\ nm_which = "dedup"
    /\ Len(nm_out) < MaxPasses
    /\ nm_out' = Append(nm_out, normalize_organization_name(NormInput))
    /\ UNCHANGED <<nm_which, nm_in>>

NormalizeEval ==
    /\ nm_which = "eval"
    /\ Len(nm_out) < MaxPasses
    /\ nm_out' = Append(nm_out, eval_normalize_organization_name(NormInput))
    /\ UNCHANGED <<nm_which, nm_in>>

(***************************************************************************)
(* Deduplicator harness: deduplicate_organizations run on a candidate list *)
(***************************************************************************)
MaxOrgs == 4

DefaultThreshold == 85

Thresholds == {50, 53, DefaultThreshold}

OrgPool ==
    { [organization |-> <<"x">>, region |-> <<"e", "u">>],
      [organization |-> <<"x", " ", "o">>, region |-> <<"e", "u">>],
      [organization |-> <<"x", " ", "x", "x">>, region |-> <<"e", "u">>],
      [organization |-> <<"x", "o", " ", "o">>, region |-> <<"e", "u">>],
      [organization |-> <<"X", ",", " ", "C", "o">>, region |-> <<"N", "A">>] }

\* a list whose second record loses to the first, which then loses to the third
ChainedList ==
    << [organization |-> <<"x", " ", "o">>, region |-> <<"N", "A">>],
       [organization |-> <<"x">>, region |-> <<"N", "A">>],
       [organization |-> <<"x", " ", "x", "x">>, region |-> <<"e", "u">>] >>

\* a list of two names whose similarity depends on the order they are compared in
OrderSensitiveList ==
    << [organization |-> <<"o", " ", "x", "o">>, region |-> <<"e", "u">>],
       [organization |-> <<"c", " ", "o">>, region |-> <<"e", "u">>] >>

NoDedupResult ==
    [unique_organizations |-> <<>>, duplicates_removed |-> 0, confidence_scores |-> <<>>]

DedupInit ==
    /\ dd_orgs \in UNION {[1..n -> OrgPool] : n \in 0..MaxOrgs}
                     \cup {ChainedList, OrderSensitiveList}
    /\ dd_threshold \in Thresholds
    /\ dd_pc = "start"
    /\ dd_dups = <<>>
    /\ dd_k = 1
    /\ dd_st = StartState(<<>>)
    /\ dd_result = NoDedupResult

DedupIdle ==
    /\ dd_orgs = <<>>
    /\ dd_threshold = DefaultThreshold
    /\ dd_pc = "idle"
    /\ dd_dups = <<>>
    /\ dd_k = 1
    /\ dd_st = StartState(<<>>)
    /\ dd_result = NoDedupResult

\* the early return on an empty list
DedupEmpty ==
    /\ dd_pc = "start"
    /\ dd_orgs = <<>>
    /\ dd_result' = deduplicate_organizations(dd_orgs, dd_threshold)
    /\ dd_pc' = "done"
    /\ UNCHANGED <<dd_orgs, dd_threshold, dd_dups, dd_k, dd_st>>

\* find_duplicates and the initial to_keep
DedupStart ==
    /\ dd_pc = "start"
    /\ dd_orgs # <<>>
    /\ dd_dups' = find_duplicates(dd_orgs, dd_threshold)
    /\ dd_st' = StartState(dd_orgs)
    /\ dd_k' = 1
    /\ dd_pc' = "loop"
    /\ UNCHANGED <<dd_orgs, dd_threshold, dd_result>>

\* one iteration of `for idx1, idx2, similarity in duplicates`
DedupStep ==
    /\ dd_pc = "loop"
    /\ dd_k <= Len(dd_dups)
    /\ dd_st' = ResolvePair(dd_orgs, dd_st, dd_dups[dd_k])
    /\ dd_k' = dd_k + 1
    /\ UNCHANGED <<dd_orgs, dd_threshold, dd_pc, dd_dups, dd_result>>

\* the result built after the loop
DedupFinish ==
    /\ dd_pc = "loop"
    /\ dd_k > Len(dd_dups)
    /\ dd_result' = DeduplicationResult(dd_orgs, dd_st)
    /\ dd_pc' = "done"
    /\ UNCHANGED <<dd_orgs, dd_threshold, dd_dups, dd_k, dd_st>>

(***************************************************************************)
(* Similarity harness: two names, compared by one of the two               *)
(* calculate_similarity functions in both orders and the first with itself *)
(***************************************************************************)
MaxSimLen == 3

SimChars == {"x", "o", "c", " ", ","}

NameHealthInc ==
    <<"H", "e", "a", "l", "t", "h", " ", "I", "n", "c">>

NameMedicalCo ==
    <<"M", "e", "d", "i", "c", "a", "l", " ", "C", "o">>

NameMayoSystem ==
    <<"M", "a", "y", "o", " ", "C", "l", "i", "n", "i", "c", " ", "H", "e", "a", "l",
      "t", "h", " ", "S", "y", "s", "t", "e", "m">>

NameMayoSystemInc ==
    <<"M", "a", "y", "o", " ", "C", "l", "i", "n", "i", "c", " ", "H", "e", "a", "l",
      "t", "h", " ", "S", "y", "s", "t", "e", "m", ",", " ", "I", "n", "c", ".">>

SimExamples == {NameHealthInc, NameMedicalCo, NameMayoSystem, NameMayoSystemInc}

SimNames == UNION {[1..k -> SimChars] : k \in 0..MaxSimLen} \cup SimExamples

\* the names the first one is compared with
SimPartners ==
    { <<>>, <<"x">>, <<",">>, <<"c", "o">>, <<"o", "c", "x">>, <<"x", " ", "o">>,
      <<"x", " ", "c", "o">> } \cup SimExamples

NoSimilarity == Frac(0, 0)

Similarity(which, name1, name2) ==
    IF which = "dedup" THEN calculate_similarity(name1, name2)
    ELSE eval_calculate_similarity(name1, name2)

Normalized(which, name) ==
    IF which = "dedup" THEN normalize_organization_name(name)
    ELSE eval_normalize_organization_name(name)

SimInit ==
    /\ sm_which \in {"dedup", "eval"}
    /\ sm_a \in SimNames
    /\ sm_b \in SimPartners
    /\ sm_fwd = NoSimilarity
    /\ sm_rev = NoSimilarity
    /\ sm_self = NoSimilarity

SimIdle ==
    /\ sm_which = "none"
    /\ sm_a = <<>>
    /\ sm_b = <<>>
    /\ sm_fwd = NoSimilarity
    /\ sm_rev = NoSimilarity
    /\ sm_self = NoSimilarity

\* calculate_similarity(a, b)
SimForward ==
    /\ sm_which # "none"
    /\ sm_fwd = NoSimilarity
    /\ sm_fwd' = Similarity(sm_which, sm_a, sm_b)
    /\ UNCHANGED <<sm_which, sm_a, sm_b, sm_rev, sm_self>>

\* calculate_similarity(b, a)
SimReverse ==
    /\ sm_which # "none"
    /\ sm_rev = NoSimilarity
    /\ sm_rev' = Similarity(sm_which, sm_b, sm_a)
    /\ UNCHANGED <<sm_which, sm_a, sm_b, sm_fwd, sm_self>>

\* calculate_similarity(a, a)
SimSelf ==
    /\ sm_which # "none"
    /\ sm_self = NoSimilarity
    /\ sm_self' = Similarity(sm_which, sm_a, sm_a)
    /\ UNCHANGED <<sm_which, sm_a, sm_b, sm_fwd, sm_rev>>

(***************************************************************************)
(* Batch harness: the rows of one output CSV, given to the uniqueness      *)
(* evaluator and, as the flow's output dicts, to the module-level          *)
(* Deduplicator                                                            *)
(***************************************************************************)
MaxRows == 3

\* the cells of the name column
CellPool ==
    { <<>>, <<" ">>, <<"x">>, <<"X", " ">>, <<"x", " ", "o">>, <<"o">> }

\* the healthcare CSV names the column Organization, the corporate and providers
\* CSVs Company; "Both" has an empty Organization cell beside Company, "Name" neither
ColumnKinds == {"Organization", "Company", "Both", "Name"}

CsvRow(kind, cell) ==
    CASE kind = "Organization" -> [Organization |-> cell]
      [] kind = "Company" -> [Company |-> cell]
      [] kind = "Both" -> [Organization |-> <<>>, Company |-> cell]
      [] OTHER -> [Name |-> cell]

\* the cell a flow's write_outputs filled from o.get("organization", "")
CellOf(row) ==
    IF "Name" \in DOMAIN row THEN row["Name"]
    ELSE IF "Company" \in DOMAIN row THEN row["Company"]
    ELSE row["Organization"]

\* the output dicts the CSV rows were written from
BatchOrgs(rows) == [k \in 1..Len(rows) |-> [organization |-> CellOf(rows[k])]]

NoEvaluation == [score |-> Frac(0, 0), details |-> [error |-> "not run"]]

UqInit ==
    /\ uq_file \in {"missing", "unreadable", "ok"}
    /\ uq_rows \in
          IF uq_file = "ok"
          THEN { [k \in 1..Len(cells) |-> CsvRow(kind, cells[k])] :
                     kind \in ColumnKinds,
                     cells \in UNION {[1..n -> CellPool] : n \in 0..MaxRows} }
          ELSE {<<>>}
    /\ uq_done = {}
    /\ uq_result = NoEvaluation
    /\ uq_dedup = NoDedupResult

UqIdle ==
    /\ uq_file = "none"
    /\ uq_rows = <<>>
    /\ uq_done = {}
    /\ uq_result = NoEvaluation
    /\ uq_dedup = NoDedupResult

\* evaluate_organization_uniqueness(csv_path)
UqEvaluate ==
    /\ uq_file # "none"
    /\ "evaluate" \notin uq_done
    /\ uq_result' = evaluate_organization_uniqueness(uq_file, uq_rows)
    /\ uq_done' = uq_done \cup {"evaluate"}
    /\ UNCHANGED <<uq_file, uq_rows, uq_dedup>>

\* deduplicator.deduplicate_organizations(organizations), the module-level instance
UqDeduplicate ==
    /\ uq_file # "none"
    /\ "deduplicate" \notin uq_done
    /\ uq_dedup' = deduplicate_organizations(BatchOrgs(uq_rows), DefaultThreshold)
    /\ uq_done' = uq_done \cup {"deduplicate"}
    /\ UNCHANGED <<uq_file, uq_rows, uq_result>>

(***************************************************************************)
(* src/tools/explorium.py: what enrich_firmographics returns, and the two  *)
(* helpers the flows apply to it                                           *)
(***************************************************************************)
\* range_mappings, for the range strings the enrichment outcomes carry
RangeMin(employee_range) ==
    CASE employee_range = "10001+" -> 10001
      [] employee_range = "5001-10000" -> 5001
      [] employee_range = "1001-5000" -> 1001
      [] employee_range = "501-1000" -> 501
      [] employee_range = "201-500" -> 201
      [] employee_range = "51-200" -> 51
      [] employee_range = "11-50" -> 11
      [] employee_range = "1-10" -> 1
      [] OTHER -> -1

FortuneMinEmployees == 7500

meets_size_requirements(fx, min_employees) ==
    IF fx.employee_count >= min_employees THEN TRUE
    ELSE IF RangeMin(fx.employee_range) >= 0 THEN RangeMin(fx.employee_range) >= min_employees
    ELSE min_employees >= FortuneMinEmployees /\ (fx.is_fortune_500 \/ fx.is_global_2000)

NaCountries == {"US", "USA", "UNITED STATES", "CA", "CANADA", "MX", "MEXICO"}

EmeaCountries ==
    { "GB", "UK", "UNITED KINGDOM", "FR", "FRANCE", "DE", "GERMANY", "IT",
      "ITALY", "ES", "SPAIN", "NL", "NETHERLANDS", "BE", "BELGIUM", "SE",
      "SWEDEN", "NO", "NORWAY", "DK", "DENMARK", "FI", "FINLAND", "CH",
      "SWITZERLAND", "AT", "AUSTRIA", "PL", "POLAND", "IE", "IRELAND", "AE",
      "UAE", "SA", "SAUDI ARABIA", "ZA", "SOUTH AFRICA", "IL", "ISRAEL" }

get_region(fx) ==
    IF fx.headquarters_country \in NaCountries THEN "na"
    ELSE IF fx.headquarters_country \in EmeaCountries THEN "emea"
    ELSE "apac"

\* the outcomes of xl.enrich_firmographics(company=...): an exception, an empty
\* dict, or firmographic data
Firmographics(count, range, fortune, country) ==
    [kind |-> "data", employee_count |-> count, employee_range |-> range,
     is_fortune_500 |-> fortune, is_global_2000 |-> FALSE, headquarters_country |-> country]

EnrichRaises == [Firmographics(0, "", FALSE, "") EXCEPT !.kind = "raise"]

EnrichEmpty == [Firmographics(0, "", FALSE, "") EXCEPT !.kind = "empty"]

EnrichOutcomes ==
    { EnrichRaises, EnrichEmpty,
      Firmographics(0, "10001+", FALSE, "US"),
      Firmographics(60, "", FALSE, "GB") }

(***************************************************************************)
(* src/runtime/budget.py and the run configuration                         *)
(***************************************************************************)
\* cfg.max_enrich (BUDGET_MAX_ENRICH)
MaxEnrich == 2

\* faulty variant: the check raises only above the cap
can_enrich_over(enrich) == ~(enrich > MaxEnrich)

\* budget.assert_can_enrich() does not raise
can_enrich(enrich) == ~(enrich >= MaxEnrich)

\* budget.tick_enrich()
tick_enrich(enrich) == enrich + 1

(***************************************************************************)
(* src/tools/sheets.py: SheetsLedger.load_orgs                             *)
(***************************************************************************)
load_orgs(rows) ==
    {LowerName(Strip(rows[k].Organization)) : k \in 1..Len(rows)} \ {<<>>}

(***************************************************************************)
(* src/tools/sheets.py: SheetsLedger.upsert, the local ledger file         *)
(***************************************************************************)
\* the entry built from an output row (the two timestamps are left out)
ledger_entry(row) ==
    [Organization |-> row.organization, Segment |-> row.segment, Region |-> row.region,
     Status |-> row.tier, Score |-> row.score, EvidenceURL1 |-> row.evidence_url,
     Notes |-> row.missing]

\* index[org_name_l]: the last ledger row with this stripped lower-case name, 0 if none
IndexOf(existing, org_name_l) ==
    SetMax({0} \cup {i \in 1..Len(existing) :
                        LowerName(Strip(existing[i].Organization)) = org_name_l})

\* faulty variant: every row is appended
upsert_row_append(existing, row) == Append(existing, ledger_entry(row))

\* one iteration of `for row in rows`: replace the indexed entry or append
upsert_row(existing, row) ==
    IF IndexOf(existing, LowerName(Strip(row.organization))) > 0
    THEN [existing EXCEPT ![IndexOf(existing, LowerName(Strip(row.organization)))] =
              ledger_entry(row)]
    ELSE Append(existing, ledger_entry(row))

RECURSIVE UpsertFrom(_, _, _)
UpsertFrom(existing, rows, k) ==
    IF k > Len(rows) \/ Len(existing) < 0 THEN existing
    ELSE UpsertFrom(upsert_row(existing, rows[k]), rows, k + 1)

\* upsert(rows) on the local ledger file, when the write succeeds
upsert(existing, rows) == UpsertFrom(existing, rows, 1)

(***************************************************************************)
(* dedupe_enrich_score of the three segment flows                          *)
(* (src/flows/healthcare_flow.py, corporate_flow_stub.py,                  *)
(* providers_flow_stub.py)                                                 *)
(***************************************************************************)
Segments == {"healthcare", "corporate", "providers"}

HcMinEmployees == 5000

CorpMinEmployees == 7500

ProvMinEmployees == 50

MinEmployees(seg) ==
    CASE seg = "healthcare" -> HcMinEmployees
      [] seg = "corporate" -> CorpMinEmployees
      [] OTHER -> ProvMinEmployees

\* the evidence key a flow sets when the size requirement is met
SizeKey(seg) == IF seg = "providers" THEN "adequate_size" ELSE "large_scale"

\* (c["organization"] or "").strip().lower()
org_key(c) == LowerName(Strip(c.organization))

\* faulty variant: the key check without the ledger set
KeyDropped_blank(c, seen) == org_key(c) = <<>>

\* `if not org_key or org_key in seen: continue`
KeyDropped(c, seen) == org_key(c) = <<>> \/ org_key(c) \in seen

\* the two ICP filters of the healthcare flow
IcpFiltered(seg, c) ==
    seg = "healthcare" /\ (~is_organization_name(c.organization) \/ ~validate_against_icp(c))

\* the try block: the budget check, the enrichment call, the tick, and what a
\* non-empty result writes into the candidate
Enrich(seg, c, fx, enrich) ==
    LET called == can_enrich(enrich)
        returned == called /\ fx.kind # "raise"
        data == returned /\ fx.kind = "data"
        ev1 == IF data /\ meets_size_requirements(fx, MinEmployees(seg))
               THEN Put(c.evidence, SizeKey(seg), TRUE)
               ELSE c.evidence
    IN  [called |-> called,
         enrich |-> IF returned THEN tick_enrich(enrich) ELSE enrich,
         detected_region |-> IF data THEN get_region(fx) ELSE "both",
         cand |-> IF data
                  THEN [c EXCEPT !.evidence = Put(ev1, "enriched_data", fx),
                                 !.region = get_region(fx)]
                  ELSE c]

\* the regional targeting block says `continue`; current_na_ratio is compared with the
\* floats 0.8 + 0.1 (just above 9/10) and 0.8 - 0.1 (just above 7/10)
RegionSkipped(region, detected, na, emea) ==
    IF region # "both"
    THEN detected # region /\ detected # "both"
    ELSE /\ na + emea > 0
         /\ \/ detected = "na" /\ 10 * na > 9 * (na + emea)
            \/ detected = "emea" /\ 10 * na <= 7 * (na + emea)

ScoreFor(seg, e) ==
    CASE seg = "healthcare" -> score_healthcare(e)
      [] seg = "corporate" -> score_corporate(e)
      [] OTHER -> score_providers(e)

\* the evidence mapping as the scorer leaves it
EvidenceAfter(seg, e) ==
    CASE seg = "healthcare" -> e
      [] seg = "corporate" -> corp_evidence(e)
      [] OTHER -> prov_evidence(e)

PrimaryFor(seg, url, name) ==
    IF seg = "healthcare" THEN hc_is_primary_domain(url, name) ELSE is_primary_domain(url, name)

AggregatorFor(seg, url) ==
    IF seg = "healthcare" THEN hc_is_aggregator_domain(url) ELSE is_aggregator_domain(url)

\* what gpt.adjudicate_evidence may do in a flow: only the healthcare flow calls it;
\* "off" when cfg.max_llm_tokens is 0 or the call raises, else what meets_must_haves says
GptOutcomes(seg) == IF seg = "healthcare" THEN {"off", "meets", "fails"} ELSE {"off"}

\* the GPT adjudication of the healthcare flow
Adjudicated(seg, sc, url, name, gpt) ==
    IF /\ seg = "healthcare"
       /\ gpt = "fails"
       /\ sc.tier = "Confirmed"
       /\ hc_is_primary_domain(url, name)
    THEN [sc EXCEPT !.tier = "Probable"]
    ELSE sc

\* faulty variant: the aggregator check is left out
DomainChecked_primaryonly(seg, sc, url, name) ==
    IF sc.tier = "Confirmed" /\ ~PrimaryFor(seg, url, name)
    THEN [sc EXCEPT !.tier = "Probable"]
    ELSE sc

\* domain authority: Confirmed must be on the organization's primary domain
DomainChecked(seg, sc, url, name) ==
    IF sc.tier # "Confirmed" THEN sc
    ELSE IF seg = "healthcare"
    THEN IF ~hc_is_primary_domain(url, name)
         THEN [sc EXCEPT !.tier = "Probable",
                         !.missing = Append(@, "primary-domain evidence required for Confirmed")]
         ELSE IF hc_is_aggregator_domain(url)
         THEN [sc EXCEPT !.tier = "Probable", !.missing = Append(@, "aggregator-only evidence")]
         ELSE sc
    ELSE IF ~is_primary_domain(url, name) \/ is_aggregator_domain(url)
    THEN [sc EXCEPT !.tier = "Probable"]
    ELSE sc

\* str.upper() on a region
UpperRegion(r) ==
    CASE r = "na" -> "NA"
      [] r = "emea" -> "EMEA"
      [] r = "apac" -> "APAC"
      [] r = "both" -> "BOTH"
      [] OTHER -> r

\* the "region" of an output row
RowRegion(seg, c) ==
    IF seg = "healthcare"
    THEN UpperRegion(IF c.region = "" THEN "NA" ELSE c.region)
    ELSE c.region

\* the key sheets.py and the flows derive from an output row
RowKey(row) == LowerName(Strip(row.organization))

\* the dict appended to outputs
OutputRow(seg, c, sc) ==
    [organization |-> c.organization,
     segment |-> seg,
     region |-> RowRegion(seg, c),
     tier |-> sc.tier,
     score |-> sc.score,
     evidence_url |-> c.evidence["evidence_url"],
     missing |-> sc.missing]

\* the tier checks that follow the scorer call: adjudication, then domain authority
Judged(seg, sc0, cand, gpt) ==
    DomainChecked(seg,
                  Adjudicated(seg, sc0, cand.evidence["evidence_url"], cand.organization, gpt),
                  cand.evidence["evidence_url"], cand.organization)

\* faulty variant: a row is appended whatever the tier
Outcome_anytier(seg, region, en, skipped, sc0, cand, sc, na, emea) ==
    [cand |-> IF skipped THEN en.cand ELSE cand,
     enrich |-> en.enrich,
     enrich_called |-> en.called,
     scored |-> ~skipped,
     na |-> IF ~skipped /\ region = "both" /\ en.detected_region = "na" THEN na + 1 ELSE na,
     emea |-> IF ~skipped /\ region = "both" /\ en.detected_region = "emea"
              THEN emea + 1 ELSE emea,
     emitted |-> ~skipped,
     scored_tier |-> IF skipped THEN "" ELSE sc0.tier,
     tier |-> IF skipped THEN "" ELSE sc.tier,
     row |-> OutputRow(seg, cand, sc)]

\* what one loop iteration leaves behind: en is what the try block returned, skipped
\* what the regional targeting decided, sc0 the scorer's result, cand the candidate
\* as the scorer left it and sc the result after the tier checks
Outcome(seg, region, en, skipped, sc0, cand, sc, na, emea) ==
    [cand |-> IF skipped THEN en.cand ELSE cand,
     enrich |-> en.enrich,
     enrich_called |-> en.called,
     scored |-> ~skipped,
     na |-> IF ~skipped /\ region = "both" /\ en.detected_region = "na" THEN na + 1 ELSE na,
     emea |-> IF ~skipped /\ region = "both" /\ en.detected_region = "emea"
              THEN emea + 1 ELSE emea,
     emitted |-> /\ ~skipped
                 /\ ~(seg = "providers" /\ sc0.tier = "Excluded")
                 /\ sc.tier \in {"Confirmed", "Probable"},
     scored_tier |-> IF skipped THEN "" ELSE sc0.tier,
     tier |-> IF skipped THEN "" ELSE sc.tier,
     row |-> OutputRow(seg, cand, sc)]

\* the iteration from the scorer call on
ScoreStage(seg, region, en, skipped, sc0, cand, gpt, na, emea) ==
    Outcome(seg, region, en, skipped, sc0, cand, Judged(seg, sc0, cand, gpt), na, emea)

\* the iteration from the regional targeting on
RegionStage(seg, region, en, gpt, na, emea) ==
    ScoreStage(seg, region, en,
               RegionSkipped(region, en.detected_region, na, emea),
               ScoreFor(seg, en.cand.evidence),
               [en.cand EXCEPT !.evidence = EvidenceAfter(seg, @)],
               gpt, na, emea)

\* everything one loop iteration does with a candidate that passed the key check
\* and the ICP filters
Processed(seg, region, c, fx, gpt, enrich, na, emea) ==
    RegionStage(seg, region, Enrich(seg, c, fx, enrich), gpt, na, emea)

\* history record of one iteration: scored_tier is the tier the scorer returned and
\* tier the one left after the tier checks, both "" when the scorer was not called
Visit(stage, enrich_called, scored, emitted, scored_tier, tier) ==
    [idx |-> fl_i, stage |-> stage, enrich_before |-> budget_enrich,
     enrich_called |-> enrich_called, scored |-> scored, emitted |-> emitted,
     scored_tier |-> scored_tier, tier |-> tier]

(***************************************************************************)
(* Flow harness: one run of dedupe_enrich_score on candidates as harvest   *)
(* builds them, against a ledger                                           *)
(***************************************************************************)
MaxCandidates == 2

MaxTarget == 2

NameMayo == <<"M", "a", "y", "o", " ", "C", "l", "i", "n", "i", "c">>

NameMayoLower == <<" ", "m", "a", "y", "o", " ", "c", "l", "i", "n", "i", "c">>

NameAcmeClinic == <<"A", "c", "m", "e", " ", "C", "l", "i", "n", "i", "c">>

NameBestClinic == <<"B", "e", "s", "t", " ", "C", "l", "i", "n", "i", "c">>

NameAcme == <<"A", "c", "m", "e">>

NameAcmeUpper == <<"A", "C", "M", "E", " ">>

NameBolt == <<"B", "o", "l", "t">>

NameBlank == <<" ", " ">>

HcFlags(v) == [k \in HealthcareFlags |-> v]

HcEvidence(v, url) == HcFlags(v) @@ ("evidence_url" :> url) @@ ("full_text" :> <<>>)

HealthcarePool ==
    { [organization |-> NameMayo, evidence |-> HcEvidence(TRUE, <<"www", "mayoclinic", "org">>)],
      [organization |-> NameMayoLower, evidence |-> HcEvidence(TRUE, <<"www", "healthnews", "com">>)],
      [organization |-> NameAcmeClinic, evidence |-> HcEvidence(FALSE, <<"www", "healthnews", "com">>)],
      [organization |-> NameBestClinic, evidence |-> HcEvidence(TRUE, <<"www", "healthnews", "com">>)] }

CorpEvidence(v, text, url) ==
    [k \in CorporateFlags |-> IF k = "external_scope" THEN FALSE ELSE v]
        @@ ("evidence_url" :> url) @@ ("full_text" :> text)

CorporatePool ==
    { [organization |-> NameAcme,
       evidence |-> CorpEvidence(TRUE, TextOf(CorpPhrases, {1}), <<"academy", "acme", "com">>)],
      [organization |-> NameAcmeUpper,
       evidence |-> CorpEvidence(TRUE, TextOf(CorpPhrases, {1}), <<"www", "healthnews", "com">>)],
      [organization |-> NameAcme,
       evidence |-> CorpEvidence(TRUE, TextOf(CorpPhrases, {1}), <<"www", "acmenews", "com">>)],
      [organization |-> NameBolt, evidence |-> CorpEvidence(FALSE, <<>>, <<"www", "bolt", "io">>)] }

ProvEvidence(text, url) ==
    [k \in ProvidersFlags |-> TRUE] @@ ("evidence_url" :> url) @@ ("full_text" :> text)

ProvidersPool ==
    { [organization |-> NameAcme,
       evidence |-> ProvEvidence(TextOf(ProvPhrases, {2, 4, 5, 6, 8, 9, 10}), <<"www", "acme", "com">>)],
      [organization |-> NameAcmeUpper,
       evidence |-> ProvEvidence(TextOf(ProvPhrases, {1, 2, 4, 5, 6}), <<"www", "acme", "com">>)],
      [organization |-> NameBolt,
       evidence |-> ProvEvidence(TextOf(ProvPhrases, {2, 4, 5, 8}), <<"www", "bolt", "io">>)],
      [organization |-> NameBlank,
       evidence |-> ProvEvidence(<<>>, <<"www", "bolt", "io">>)] }

Pool(seg) ==
    CASE seg = "healthcare" -> HealthcarePool
      [] seg = "corporate" -> CorporatePool
      [] OTHER -> ProvidersPool

\* harvest stamps every candidate with state.region
CandidateLists(seg, region) ==
    UNION { [1..n -> {[organization |-> p.organization, evidence |-> p.evidence,
                       region |-> region] : p \in Pool(seg)}] : n \in 0..MaxCandidates }

LedgerRow(name) == [Organization |-> name]

Ledgers(seg) ==
    { <<>>, <<LedgerRow(IF seg = "healthcare" THEN NameMayo ELSE NameAcme)>> }

FlowInit ==
    /\ fl_seg \in Segments
    /\ fl_region \in {"both", "na"}
    /\ fl_target \in 1..MaxTarget
    /\ fl_cands \in CandidateLists(fl_seg, fl_region)
    /\ fl_harvested = fl_cands
    /\ ledger \in Ledgers(fl_seg)
    /\ fl_seen = {}
    /\ fl_out = <<>>
    /\ fl_outputs = <<>>
    /\ fl_i = 1
    /\ fl_pc = "start"
    /\ budget_enrich = 0
    /\ na_count = 0
    /\ emea_count = 0
    /\ fl_trace = <<>>
    /\ fl_run = "first"
    /\ fl_upserted = {}

FlowIdle ==
    /\ fl_seg = "none"
    /\ fl_region = "both"
    /\ fl_target = 0
    /\ fl_cands = <<>>
    /\ fl_harvested = <<>>
    /\ ledger = <<>>
    /\ fl_seen = {}
    /\ fl_out = <<>>
    /\ fl_outputs = <<>>
    /\ fl_i = 1
    /\ fl_pc = "idle"
    /\ budget_enrich = 0
    /\ na_count = 0
    /\ emea_count = 0
    /\ fl_trace = <<>>
    /\ fl_run = "first"
    /\ fl_upserted = {}

\* the candidates the two-run harness harvests: two of each segment's pool
RunsPool(seg) ==
    CASE seg = "healthcare" ->
             {p \in HealthcarePool : p.organization \in {NameMayo, NameBestClinic}}
      [] seg = "corporate" ->
             {p \in CorporatePool : p.evidence["evidence_url"][1] = "academy"
                                        \/ p.organization = NameBolt}
      [] OTHER -> {p \in ProvidersPool : p.organization \in {NameAcme, NameAcmeUpper}}

RunsLists(seg, region) ==
    UNION { [1..n -> {[organization |-> p.organization, evidence |-> p.evidence,
                       region |-> region] : p \in RunsPool(seg)}] : n \in 0..MaxCandidates }

\* two consecutive runs in one process: the first starts on an empty ledger
RunsInit ==
    /\ fl_seg \in Segments
    /\ fl_region = "both"
    /\ fl_target \in 1..MaxTarget
    /\ fl_cands \in RunsLists(fl_seg, fl_region)
    /\ fl_harvested = fl_cands
    /\ ledger = <<>>
    /\ fl_seen = {}
    /\ fl_out = <<>>
    /\ fl_outputs = <<>>
    /\ fl_i = 1
    /\ fl_pc = "start"
    /\ budget_enrich = 0
    /\ na_count = 0
    /\ emea_count = 0
    /\ fl_trace = <<>>
    /\ fl_run = "first"
    /\ fl_upserted = {}

\* seen = ledger.load_orgs(segment); a failed load is caught and leaves the set empty
FlowStart ==
    /\ fl_pc = "start"
    /\ \E loaded \in BOOLEAN : fl_seen' = IF loaded THEN load_orgs(ledger) ELSE {}
    /\ fl_pc' = "loop"
    /\ UNCHANGED <<fl_harvested, fl_seg, fl_region, fl_target, fl_cands, ledger, fl_out, fl_outputs,
                   fl_i, budget_enrich, na_count, emea_count, fl_trace, fl_run, fl_upserted>>

InLoop == fl_pc = "loop" /\ fl_i <= Len(fl_cands) /\ ~(Len(fl_out) >= fl_target)

\* an iteration that ends at `if not org_key or org_key in seen: continue`
FlowDrop ==
    /\ InLoop
    /\ KeyDropped(fl_cands[fl_i], fl_seen)
    /\ fl_i' = fl_i + 1
    /\ fl_trace' = Append(fl_trace, Visit("key", FALSE, FALSE, FALSE, "", ""))
    /\ UNCHANGED <<fl_harvested, fl_seg, fl_region, fl_target, fl_cands, ledger, fl_seen, fl_out,
                   fl_outputs, fl_pc, budget_enrich, na_count, emea_count, fl_run, fl_upserted>>

\* an iteration that ends at one of the healthcare flow's ICP filters
FlowFilter ==
    /\ InLoop
    /\ ~KeyDropped(fl_cands[fl_i], fl_seen)
    /\ IcpFiltered(fl_seg, fl_cands[fl_i])
    /\ fl_i' = fl_i + 1
    /\ fl_trace' = Append(fl_trace, Visit("icp", FALSE, FALSE, FALSE, "", ""))
    /\ UNCHANGED <<fl_harvested, fl_seg, fl_region, fl_target, fl_cands, ledger, fl_seen, fl_out,
                   fl_outputs, fl_pc, budget_enrich, na_count, emea_count, fl_run, fl_upserted>>

\* an iteration that reaches the enrichment block
FlowProcess ==
    /\ InLoop
    /\ ~KeyDropped(fl_cands[fl_i], fl_seen)
    /\ ~IcpFiltered(fl_seg, fl_cands[fl_i])
    /\ \E r \in {Processed(fl_seg, fl_region, fl_cands[fl_i], fx, gpt,
                           budget_enrich, na_count, emea_count) :
                     fx \in EnrichOutcomes, gpt \in GptOutcomes(fl_seg)} :
          /\ fl_cands' = [fl_cands EXCEPT ![fl_i] = r.cand]
          /\ budget_enrich' = r.enrich
          /\ na_count' = r.na
          /\ emea_count' = r.emea
          /\ fl_out' = IF r.emitted THEN Append(fl_out, r.row) ELSE fl_out
          /\ fl_trace' = Append(fl_trace,
                                Visit("processed", r.enrich_called, r.scored, r.emitted,
                                      r.scored_tier, r.tier))
    /\ fl_i' = fl_i + 1
    /\ UNCHANGED <<fl_harvested, fl_seg, fl_region, fl_target, ledger, fl_seen, fl_outputs, fl_pc,
                   fl_run, fl_upserted>>

\* the loop ends (exhausted or `break`): state.outputs = outputs
FlowFinish ==
    /\ fl_pc = "loop"
    /\ ~(fl_i <= Len(fl_cands) /\ ~(Len(fl_out) >= fl_target))
    /\ fl_outputs' = fl_out
    /\ fl_pc' = "done"
    /\ UNCHANGED <<fl_harvested, fl_seg, fl_region, fl_target, fl_cands, ledger, fl_seen, fl_out,
                   fl_i, budget_enrich, na_count, emea_count, fl_trace, fl_run, fl_upserted>>

\* write_outputs: `if state.outputs: ledger.upsert(state.outputs)`; a failed write is
\* caught inside upsert and leaves the ledger as it was
FlowWrite ==
    /\ fl_pc = "done"
    /\ \E written \in IF fl_outputs = <<>> THEN {FALSE} ELSE BOOLEAN :
          /\ ledger' = IF written THEN upsert(ledger, fl_outputs) ELSE ledger
          /\ fl_upserted' =
                IF written THEN fl_upserted \cup {RowKey(fl_outputs[k]) : k \in 1..Len(fl_outputs)}
                ELSE fl_upserted
    /\ fl_pc' = "written"
    /\ UNCHANGED <<fl_harvested, fl_seg, fl_region, fl_target, fl_cands, fl_seen, fl_out,
                   fl_outputs, fl_i, budget_enrich, na_count, emea_count, fl_trace, fl_run>>

\* the next run of the same flow in the same process: a fresh state whose harvest
\* finds the same organizations; the ledger and the module-level budget carry over
FlowRerun ==
    /\ fl_pc = "written"
    /\ fl_run = "first"
    /\ fl_run' = "next"
    /\ fl_cands' = fl_harvested
    /\ fl_seen' = {}
    /\ fl_out' = <<>>
    /\ fl_outputs' = <<>>
    /\ fl_i' = 1
    /\ na_count' = 0
    /\ emea_count' = 0
    /\ fl_trace' = <<>>
    /\ fl_pc' = "start"
    /\ UNCHANGED <<fl_harvested, fl_seg, fl_region, fl_target, ledger, budget_enrich, fl_upserted>>

(***************************************************************************)
(* Specifications                                                          *)
(***************************************************************************)
vars == <<scoreVars, normVars, dedupVars, simVars, uqVars, flowVars>>

ScoreNext ==
    \/ CallHealthcare /\ UNCHANGED <<normVars, dedupVars, simVars, uqVars, flowVars>>
    \/ CallCorporate /\ UNCHANGED <<normVars, dedupVars, simVars, uqVars, flowVars>>
    \/ CallProviders /\ UNCHANGED <<normVars, dedupVars, simVars, uqVars, flowVars>>

InitScore == ScoreInit /\ NormIdle /\ DedupIdle /\ SimIdle /\ UqIdle /\ FlowIdle

SpecScore == InitScore /\ [][ScoreNext]_vars

NormNext ==
    \/ NormalizeDedup /\ UNCHANGED <<scoreVars, dedupVars, simVars, uqVars, flowVars>>
    \/ NormalizeEval /\ UNCHANGED <<scoreVars, dedupVars, simVars, uqVars, flowVars>>

InitNorm == NormInit /\ ScoreIdle /\ DedupIdle /\ SimIdle /\ UqIdle /\ FlowIdle

SpecNorm == InitNorm /\ [][NormNext]_vars

DedupNext ==
    \/ DedupEmpty /\ UNCHANGED <<scoreVars, normVars, simVars, uqVars, flowVars>>
    \/ DedupStart /\ UNCHANGED <<scoreVars, normVars, simVars, uqVars, flowVars>>
    \/ DedupStep /\ UNCHANGED <<scoreVars, normVars, simVars, uqVars, flowVars>>
    \/ DedupFinish /\ UNCHANGED <<scoreVars, normVars, simVars, uqVars, flowVars>>

InitDedup == DedupInit /\ ScoreIdle /\ NormIdle /\ SimIdle /\ UqIdle /\ FlowIdle

SpecDedup == InitDedup /\ [][DedupNext]_vars

SimNext ==
    \/ SimForward /\ UNCHANGED <<scoreVars, normVars, dedupVars, uqVars, flowVars>>
    \/ SimReverse /\ UNCHANGED <<scoreVars, normVars, dedupVars, uqVars, flowVars>>
    \/ SimSelf /\ UNCHANGED <<scoreVars, normVars, dedupVars, uqVars, flowVars>>

InitSim == SimInit /\ ScoreIdle /\ NormIdle /\ DedupIdle /\ UqIdle /\ FlowIdle

SpecSim == InitSim /\ [][SimNext]_vars

UqNext ==
    \/ UqEvaluate /\ UNCHANGED <<scoreVars, normVars, dedupVars, simVars, flowVars>>
    \/ UqDeduplicate /\ UNCHANGED <<scoreVars, normVars, dedupVars, simVars, flowVars>>

InitUq == UqInit /\ ScoreIdle /\ NormIdle /\ DedupIdle /\ SimIdle /\ FlowIdle

SpecUq == InitUq /\ [][UqNext]_vars

Next ==
    \/ FlowStart /\ UNCHANGED <<scoreVars, normVars, dedupVars, simVars, uqVars>>
    \/ FlowDrop /\ UNCHANGED <<scoreVars, normVars, dedupVars, simVars, uqVars>>
    \/ FlowFilter /\ UNCHANGED <<scoreVars, normVars, dedupVars, simVars, uqVars>>
    \/ FlowProcess /\ UNCHANGED <<scoreVars, normVars, dedupVars, simVars, uqVars>>
    \/ FlowFinish /\ UNCHANGED <<scoreVars, normVars, dedupVars, simVars, uqVars>>

Init == FlowInit /\ ScoreIdle /\ NormIdle /\ DedupIdle /\ SimIdle /\ UqIdle

Spec == Init /\ [][Next]_vars

RunsNext ==
    \/ FlowStart /\ UNCHANGED <<scoreVars, normVars, dedupVars, simVars, uqVars>>
    \/ FlowDrop /\ UNCHANGED <<scoreVars, normVars, dedupVars, simVars, uqVars>>
    \/ FlowFilter /\ UNCHANGED <<scoreVars, normVars, dedupVars, simVars, uqVars>>
    \/ FlowProcess /\ UNCHANGED <<scoreVars, normVars, dedupVars, simVars, uqVars>>
    \/ FlowFinish /\ UNCHANGED <<scoreVars, normVars, dedupVars, simVars, uqVars>>
    \/ FlowWrite /\ UNCHANGED <<scoreVars, normVars, dedupVars, simVars, uqVars>>
    \/ FlowRerun /\ UNCHANGED <<scoreVars, normVars, dedupVars, simVars, uqVars>>

InitRuns == RunsInit /\ ScoreIdle /\ NormIdle /\ DedupIdle /\ SimIdle /\ UqIdle

SpecRuns == InitRuns /\ [][RunsNext]_vars

(***************************************************************************)
(* Claims about dedupe_enrich_score (checked under Spec)                   *)
(***************************************************************************)
\* C1: after dedupe_enrich_score completes, no two rows of state.outputs carry the
\* same normalized organization name.
CE_C1 ==
    fl_pc = "done" =>
        \A a, b \in 1..Len(fl_outputs) :
            a # b => RowKey(fl_outputs[a]) # RowKey(fl_outputs[b])

\* C7: a candidate whose organization name matches an entry of the set load_orgs
\* returned is dropped before any enrichment or scoring call is made for it and
\* never appears among the outputs; when that set is empty, the only candidates
\* dropped at the key check are those whose name is blank.
Thm_C7 ==
    /\ \A k \in 1..Len(fl_trace) :
          org_key(fl_cands[fl_trace[k].idx]) \in fl_seen =>
              /\ ~fl_trace[k].enrich_called
              /\ ~fl_trace[k].scored
              /\ ~fl_trace[k].emitted
    /\ \A k \in 1..Len(fl_out) : RowKey(fl_out[k]) \notin fl_seen
    /\ \A k \in 1..Len(fl_outputs) : RowKey(fl_outputs[k]) \notin fl_seen
    /\ fl_seen = {} =>
          \A k \in 1..Len(fl_trace) :
              fl_trace[k].stage = "key" => org_key(fl_cands[fl_trace[k].idx]) = <<>>

\* C7 witness: a finished run in which one candidate matched the ledger set and was
\* dropped, and another candidate was enriched, scored and emitted
Wit_C7 ==
    /\ fl_pc = "done"
    /\ \E k \in 1..Len(fl_trace) :
          /\ org_key(fl_cands[fl_trace[k].idx]) \in fl_seen
          /\ fl_trace[k].stage = "key"
    /\ \E k \in 1..Len(fl_trace) : fl_trace[k].enrich_called /\ fl_trace[k].emitted
    /\ fl_outputs # <<>>

HarvestFlags == HealthcareFlags \cup CorporateFlags \cup ProvidersFlags

DerivedKeys ==
    {"academy_name", "academy_url", "vilt_sessions_90d", "vilt_schedule_url",
     "accreditations", "instructor_bench", "enriched_data"}

\* C19: no step after harvest changes the value of a flag that harvest put into a
\* candidate's evidence, and the only keys later steps add are the derived keys.
CE_C19 ==
    \A i \in 1..Len(fl_cands) :
        /\ \A k \in DOMAIN fl_harvested[i].evidence \cap HarvestFlags :
               fl_cands[i].evidence[k] = fl_harvested[i].evidence[k]
        /\ DOMAIN fl_cands[i].evidence \subseteq DOMAIN fl_harvested[i].evidence \cup DerivedKeys

\* the iterations of the current run that appended a row, in order
EmittedVisits == SelectSeq(fl_trace, LAMBDA v : v.emitted)

TierRank(tier) ==
    CASE tier = "Confirmed" -> 3
      [] tier = "Probable" -> 2
      [] tier = "Needs Confirmation" -> 1
      [] OTHER -> 0

\* the candidate's evidence URL passes the domain authority checks of its flow
Authoritative(seg, url, name) == PrimaryFor(seg, url, name) /\ ~AggregatorFor(seg, url)

VisitUrl(v) == fl_cands[v.idx].evidence["evidence_url"]

VisitName(v) == fl_cands[v.idx].organization

\* C25: in every segment flow an output row with tier "Confirmed" has an evidence URL
\* that is the organization's primary domain and not an aggregator domain; a candidate
\* scored "Confirmed" that fails either check is emitted with tier "Probable"; and the
\* tier checks after the scorer never raise a tier above the one the scorer returned.
Thm_C25 ==
    /\ \A k \in 1..Len(fl_out) :
          fl_out[k].tier = "Confirmed" =>
              Authoritative(fl_seg, fl_out[k].evidence_url, fl_out[k].organization)
    /\ \A k \in 1..Len(fl_outputs) :
          fl_outputs[k].tier = "Confirmed" =>
              Authoritative(fl_seg, fl_outputs[k].evidence_url, fl_outputs[k].organization)
    /\ Len(EmittedVisits) = Len(fl_out)
    /\ \A k \in 1..Len(fl_out) :
          /\ fl_out[k].tier = EmittedVisits[k].tier
          /\ fl_out[k].organization = VisitName(EmittedVisits[k])
          /\ fl_out[k].evidence_url = VisitUrl(EmittedVisits[k])
    /\ \A k \in 1..Len(fl_trace) :
          /\ (/\ fl_trace[k].scored_tier = "Confirmed"
              /\ ~Authoritative(fl_seg, VisitUrl(fl_trace[k]), VisitName(fl_trace[k]))) =>
                 fl_trace[k].emitted /\ fl_trace[k].tier = "Probable"
          /\ fl_trace[k].scored =>
                 TierRank(fl_trace[k].tier) <= TierRank(fl_trace[k].scored_tier)

\* C25 witness: a finished run that emitted one row as "Confirmed" and one candidate,
\* scored "Confirmed" on a primary domain that is an aggregator, as "Probable"
Wit_C25 ==
    /\ fl_pc = "done"
    /\ \E k \in 1..Len(fl_outputs) : fl_outputs[k].tier = "Confirmed"
    /\ \E k \in 1..Len(fl_trace) :
          /\ fl_trace[k].scored_tier = "Confirmed"
          /\ PrimaryFor(fl_seg, VisitUrl(fl_trace[k]), VisitName(fl_trace[k]))
          /\ AggregatorFor(fl_seg, VisitUrl(fl_trace[k]))
          /\ fl_trace[k].emitted
          /\ fl_trace[k].tier = "Probable"

(***************************************************************************)
(* Claims about consecutive runs of a flow (checked under SpecRuns)        *)
(***************************************************************************)
LedgerKey(k) == LowerName(Strip(ledger[k].Organization))

\* C28: once write_outputs of one run has upserted an organization, the set load_orgs
\* returns in the next run holds its stripped lower-case name, so the next run's
\* dedupe_enrich_score emits no row for it; and upserting a name already in the
\* ledger replaces its entry without adding a second one.
CE_C28 ==
    /\ (fl_run = "next" /\ fl_pc # "start") =>
          /\ fl_upserted \subseteq fl_seen
          /\ \A k \in 1..Len(fl_out) : RowKey(fl_out[k]) \notin fl_upserted
          /\ \A k \in 1..Len(fl_outputs) : RowKey(fl_outputs[k]) \notin fl_upserted
    /\ \A i, j \in 1..Len(ledger) : i # j => LedgerKey(i) # LedgerKey(j)

\* C29: every row of state.outputs, and so every row upserted to the ledger, has tier
\* "Confirmed" or "Probable"; a candidate whose final tier is "Needs Confirmation" or
\* "Excluded" produces no output row; and state.outputs never holds more than
\* targetcount rows.
Thm_C29 ==
    /\ \A k \in 1..Len(fl_out) : fl_out[k].tier \in {"Confirmed", "Probable"}
    /\ \A k \in 1..Len(fl_outputs) : fl_outputs[k].tier \in {"Confirmed", "Probable"}
    /\ \A k \in 1..Len(ledger) : ledger[k].Status \in {"Confirmed", "Probable"}
    /\ \A k \in 1..Len(fl_trace) :
          fl_trace[k].tier \in {"Needs Confirmation", "Excluded"} => ~fl_trace[k].emitted
    /\ Len(EmittedVisits) = Len(fl_out)
    /\ Len(fl_out) <= fl_target
    /\ Len(fl_outputs) <= fl_target

\* C29 witness: a run whose rows were upserted, in which one candidate ended with
\* tier "Needs Confirmation" or "Excluded" and another was emitted
Wit_C29 ==
    /\ fl_pc = "written"
    /\ ledger # <<>>
    /\ fl_outputs # <<>>
    /\ \E k \in 1..Len(fl_trace) :
          fl_trace[k].tier \in {"Needs Confirmation", "Excluded"} /\ ~fl_trace[k].emitted
    /\ \E k \in 1..Len(fl_trace) : fl_trace[k].emitted

\* C30: over any sequence of candidates, across the runs of one process, budget.enrich
\* never exceeds cfg.max_enrich; enrich_firmographics is called only after
\* assert_can_enrich succeeded; and once the cap is reached the candidates that reach
\* the enrichment block are still scored, without enrichment.
Thm_C30 ==
    /\ budget_enrich <= MaxEnrich
    /\ \A k \in 1..Len(fl_trace) :
          /\ fl_trace[k].enrich_called => fl_trace[k].enrich_before < MaxEnrich
          /\ (fl_trace[k].stage = "processed" /\ fl_trace[k].enrich_before >= MaxEnrich) =>
                 /\ ~fl_trace[k].enrich_called
                 /\ fl_trace[k].scored
                 /\ "enriched_data" \notin DOMAIN fl_cands[fl_trace[k].idx].evidence

\* C30 witness: in the second run of the process a candidate reaches the enrichment
\* block with the cap already reached and is scored and emitted without enrichment
Wit_C30 ==
    /\ fl_run = "next"
    /\ budget_enrich = MaxEnrich
    /\ \E k \in 1..Len(fl_trace) :
          /\ fl_trace[k].stage = "processed"
          /\ fl_trace[k].enrich_before = MaxEnrich
          /\ ~fl_trace[k].enrich_called
          /\ fl_trace[k].scored
          /\ fl_trace[k].emitted

(***************************************************************************)
(* Claims about the scorers (checked under SpecScore)                      *)
(***************************************************************************)
Scored(seg) == scorer = seg /\ calls > 0

\* C2: whenever ehr_activity or vilt_present is false or absent, score_healthcare
\* never returns the top tier "Confirmed", whatever the other flags and the score.
CE_C2 ==
    (Scored("healthcare") /\ ~(Get(ev_before, "ehr_activity") /\ Get(ev_before, "vilt_present")))
        => result.tier # "Confirmed"

\* C3: score_healthcare follows the 90/70 ladder: top tier exactly when both MUST
\* flags hold and score >= 90, middle tier exactly when not top and score >= 70,
\* lowest tier otherwise.
CE_C3 ==
    Scored("healthcare") =>
        result.tier =
            IF Get(ev_before, "ehr_activity") /\ Get(ev_before, "vilt_present") /\ result.score >= 90
            THEN "Confirmed"
            ELSE IF result.score >= 70 THEN "Probable"
            ELSE "Needs Confirmation"

\* C4: score_corporate returns "Confirmed" exactly when training_program, large_scale
\* and vilt_present are true, a non-empty academy_name was derived and score >= 90;
\* otherwise "Probable" exactly when score >= 70, else "Needs Confirmation".
Thm_C4 ==
    Scored("corporate") =>
        result.tier =
            IF /\ Get(ev_before, "training_program")
               /\ Get(ev_before, "large_scale")
               /\ Get(ev_before, "vilt_present")
               /\ evidence["academy_name"] # <<>>
               /\ result.score >= 90
            THEN "Confirmed"
            ELSE IF result.score >= 70 THEN "Probable"
            ELSE "Needs Confirmation"

\* C4 witness: evidence reaching score >= 90 without large_scale is scored "Probable"
Wit_C4 ==
    /\ Scored("corporate")
    /\ result.score >= 90
    /\ ~Get(ev_before, "large_scale")
    /\ result.tier = "Probable"

\* C5: without red flags, score_providers returns "Confirmed" exactly when
\* corporate_focus, virtual_capability, (vilt_schedule_url non-empty and
\* vilt_sessions_90d >= 5) and instructor_bench >= 5 hold and score >= 90; otherwise
\* "Probable" exactly when score >= 70, else "Needs Confirmation".
Thm_C5 ==
    (Scored("providers") /\ result.tier # "Excluded") =>
        result.tier =
            IF /\ Get(ev_before, "corporate_focus")
               /\ Get(ev_before, "virtual_capability")
               /\ evidence["vilt_schedule_url"] # <<>>
               /\ evidence["vilt_sessions_90d"] >= 5
               /\ evidence["instructor_bench"] >= 5
               /\ result.score >= 90
            THEN "Confirmed"
            ELSE IF result.score >= 70 THEN "Probable"
            ELSE "Needs Confirmation"

\* C5 witness: evidence reaching score >= 90 with instructor_bench < 5 is "Probable"
Wit_C5 ==
    /\ Scored("providers")
    /\ result.score >= 90
    /\ evidence["instructor_bench"] < 5
    /\ result.tier = "Probable"

DerivedProviderKeys ==
    {"vilt_sessions_90d", "vilt_schedule_url", "accreditations", "instructor_bench"}

\* C6: when the free text contains a red-flag term, score_providers returns exactly
\* score 0, tier "Excluded", missing ["red_flags_present"], and writes none of the
\* derived keys into the evidence mapping.
Thm_C6 ==
    (Scored("providers") /\ AnyTerm(LowerText(GetSeq(ev_before, "full_text")), RedFlagTerms)) =>
        /\ result = [score |-> 0, tier |-> "Excluded", missing |-> <<"red_flags_present">>]
        /\ evidence = ev_before
        /\ DerivedProviderKeys \cap DOMAIN evidence = {}

\* C6 witness: red-flagged evidence whose other flags and text would score points
Wit_C6 ==
    /\ Scored("providers")
    /\ ContainsTerm(LowerText(GetSeq(ev_before, "full_text")), <<"self-paced", "only">>)
    /\ Get(ev_before, "corporate_focus")
    /\ Get(ev_before, "virtual_capability")
    /\ count_instructor_bench(GetSeq(ev_before, "full_text")) >= 5
    /\ result.tier = "Excluded"

(***************************************************************************)
(* The rules of the three scorers, as the claims about them state them      *)
(***************************************************************************)
\* the sum of the points of the rules that hold
RECURSIVE Weighted(_, _)
Weighted(points, held) ==
    IF points = <<>> THEN 0
    ELSE (IF Head(held) THEN Head(points) ELSE 0) + Weighted(Tail(points), Tail(held))

\* the identifiers of the rules that do not hold, in rule order
RECURSIVE Unmet(_, _)
Unmet(ids, held) ==
    IF ids = <<>> THEN <<>>
    ELSE (IF Head(held) THEN <<>> ELSE <<Head(ids)>>) \o Unmet(Tail(ids), Tail(held))

HcPoints == <<HcProviderOrgPts, HcEhrPts, HcViltPts, HcTrainingPts, HcLargeScalePts>>

CorpPoints ==
    <<CorpAcademyPts, CorpSizePts, CorpStructuredPts, CorpViltPts, CorpAwardPts, CorpExternalPts>>

ProvPoints ==
    <<ProvB2bPts, ProvViltPts, ProvCalendarPts, ProvBenchPts, ProvAccreditationPts,
      ProvEnterprisePts, ProvGeoPts>>

\* which rules hold for the evidence the last call was given
HcHeld ==
    <<Get(ev_before, "provider_org"), Get(ev_before, "ehr_activity"),
      Get(ev_before, "vilt_present"), Get(ev_before, "training_program"),
      Get(ev_before, "large_scale")>>

CorpHeld ==
    <<Get(ev_before, "training_program") /\ evidence["academy_name"] # <<>>,
      Get(ev_before, "large_scale"),
      Get(ev_before, "structured_learning"),
      Get(ev_before, "vilt_present"),
      AnyTerm(LowerText(GetSeq(ev_before, "full_text")), AwardTerms),
      Get(ev_before, "external_scope")>>

\* the providers rules, by the derived values the extractors return for the free text
ProvHeld ==
    LET text == GetSeq(ev_before, "full_text")
    IN  <<Get(ev_before, "corporate_focus"),
          Get(ev_before, "virtual_capability"),
          /\ extract_vilt_schedule_url(text, GetSeq(ev_before, "evidence_url")) # <<>>
          /\ count_vilt_sessions(text) >= 5,
          count_instructor_bench(text) >= 5,
          extract_accreditations(text) # <<>>,
          AnyTerm(LowerText(text), EnterpriseTerms),
          AnyTerm(LowerText(text), GeoTerms)>>

RedFlagged == AnyTerm(LowerText(GetSeq(ev_before, "full_text")), RedFlagTerms)

AllHealthcareFlags == \A k \in HealthcareFlags : Get(ev_before, k)

ScoreInRange ==
    result.score \in 0..Weighted(CASE scorer = "healthcare" -> HcPoints
                                   [] scorer = "corporate" -> CorpPoints
                                   [] OTHER -> ProvPoints,
                                 [i \in 1..7 |-> TRUE])

\* C16 as stated: for each of the three scorers the score is the sum of the points of
\* exactly the rules whose condition holds, whatever the evidence; healthcare evidence
\* with all five flags scores 95 in the top tier; every score lies between 0 and the
\* sum of all weights.
CE_C16 ==
    calls > 0 =>
        /\ scorer = "healthcare" => result.score = Weighted(HcPoints, HcHeld)
        /\ scorer = "corporate" => result.score = Weighted(CorpPoints, CorpHeld)
        /\ scorer = "providers" => result.score = Weighted(ProvPoints, ProvHeld)
        /\ (scorer = "healthcare" /\ AllHealthcareFlags) =>
               result.score = 95 /\ result.tier = "Confirmed"
        /\ ScoreInRange

\* C16 (amended): the score of score_healthcare and score_corporate, and of
\* score_providers on evidence without a red flag, is the sum of the points of exactly
\* the rules whose condition holds; score_providers returns 0 on evidence with a red
\* flag; healthcare evidence with all five flags scores 95 in the top tier; every score
\* lies between 0 and the sum of all weights.
Thm_C16 ==
    calls > 0 =>
        /\ scorer = "healthcare" => result.score = Weighted(HcPoints, HcHeld)
        /\ scorer = "corporate" => result.score = Weighted(CorpPoints, CorpHeld)
        /\ scorer = "providers" =>
               result.score = IF RedFlagged THEN 0 ELSE Weighted(ProvPoints, ProvHeld)
        /\ (scorer = "healthcare" /\ AllHealthcareFlags) =>
               result.score = 95 /\ result.tier = "Confirmed"
        /\ ScoreInRange

\* C16 witness: healthcare evidence with all five flags, scored 95 "Confirmed"
Wit_C16 ==
    /\ Scored("healthcare")
    /\ AllHealthcareFlags
    /\ result.score = 95
    /\ result.tier = "Confirmed"

HcRequirementIds == <<"ehr_activity", "vilt_present">>

CorpRequirementIds == <<"named_academy", "size_requirement", "vilt_modality">>

ProvRequirementIds ==
    <<"b2b_focus", "vilt_core_offering", "public_calendar_5plus", "instructor_bench_5plus">>

\* C17: the missing list holds, in rule order and without repetition, exactly the
\* identifiers of the record-as-missing rules whose condition failed (for providers:
\* on evidence without red flags), and no identifier of a rule whose condition held.
Thm_C17 ==
    calls > 0 =>
        /\ scorer = "healthcare" =>
               result.missing = Unmet(HcRequirementIds, <<HcHeld[2], HcHeld[3]>>)
        /\ scorer = "corporate" =>
               result.missing = Unmet(CorpRequirementIds, <<CorpHeld[1], CorpHeld[2], CorpHeld[4]>>)
        /\ (scorer = "providers" /\ ~RedFlagged) =>
               result.missing =
                   Unmet(ProvRequirementIds,
                         <<Get(ev_before, "corporate_focus"),
                           Get(ev_before, "virtual_capability"),
                           evidence["vilt_schedule_url"] # <<>> /\ evidence["vilt_sessions_90d"] >= 5,
                           evidence["instructor_bench"] >= 5>>)

\* C17 witness: corporate evidence that meets the size rule and fails the two others
Wit_C17 ==
    /\ Scored("corporate")
    /\ Get(ev_before, "large_scale")
    /\ result.missing = <<"named_academy", "vilt_modality">>

\* C18: a second call of a scorer on the evidence mapping as the first call left it
\* returns the same score, tier and missing list as the first call.
Thm_C18 == [][calls > 0 => result' = result]_vars

\* C18 witness: score_corporate called twice, the second time on evidence that holds
\* the academy_name the first call derived
Wit_C18 ==
    /\ Scored("corporate")
    /\ calls = 2
    /\ "academy_name" \in DOMAIN ev_before
    /\ ev_before["academy_name"] # <<>>
    /\ result.score >= CorpAcademyPts

FlagsOf(seg) ==
    CASE seg = "healthcare" -> HealthcareFlags
      [] seg = "corporate" -> CorporateFlags
      [] OTHER -> ProvidersFlags

TiersOf(seg) ==
    IF seg = "providers"
    THEN {"Confirmed", "Probable", "Needs Confirmation", "Excluded"}
    ELSE {"Confirmed", "Probable", "Needs Confirmation"}

RequirementIdsOf(seg) ==
    CASE seg = "healthcare" -> {"ehr_activity", "vilt_present"}
      [] seg = "corporate" -> {"named_academy", "size_requirement", "vilt_modality"}
      [] OTHER -> {"b2b_focus", "vilt_core_offering", "public_calendar_5plus",
                   "instructor_bench_5plus", "red_flags_present"}

\* the mapping with every absent flag set to false and every absent text field empty
Completed(seg, e) ==
    [k \in FlagsOf(seg) \cup {"full_text", "evidence_url"} \cup DOMAIN e |->
        IF k \in DOMAIN e THEN e[k] ELSE IF k \in FlagsOf(seg) THEN FALSE ELSE <<>>]

\* C20: on any evidence mapping, also the empty one and one that lacks flags or text
\* keys, each scorer returns a well-formed ScoreResult (an integer score, a tier of the
\* segment's tier set, a list of requirement identifiers), and it is the result for
\* the same mapping with every absent flag false and every absent text field empty.
Thm_C20 ==
    calls > 0 =>
        /\ ScoreInRange
        /\ result.tier \in TiersOf(scorer)
        /\ \A i \in 1..Len(result.missing) : result.missing[i] \in RequirementIdsOf(scorer)
        /\ result = ScoreFor(scorer, Completed(scorer, ev_before))

\* C20 witness: each scorer has returned for the empty mapping
Wit_C20 ==
    /\ calls > 0
    /\ DOMAIN ev_before = {}
    /\ result.score = 0
    /\ result.tier = "Needs Confirmation"
    /\ result.missing # <<>>

(***************************************************************************)
(* Claims about name normalisation (checked under SpecNorm)                *)
(***************************************************************************)
\* C10: normalisation is idempotent for both normalisers: a second pass over the
\* output of the first pass returns that output unchanged.
CE_C10 == Len(nm_out) >= 2 => nm_out[2] = nm_out[1]

(***************************************************************************)
(* Claims about the Deduplicator (checked under SpecDedup)                 *)
(***************************************************************************)
Removed(orgs, pct) == deduplicate_organizations(orgs, pct).duplicates_removed

PairsOf(dups) == {<<dups[k][1], dups[k][2]>> : k \in 1..Len(dups)}

\* the stepwise run returns what the function returns
DedupAgrees ==
    dd_pc = "done" => dd_result = deduplicate_organizations(dd_orgs, dd_threshold)

\* C8 (state part): the loop starts with every index kept and works on exactly the
\* pairs i < j with similarity >= threshold, listed with i ascending, then j ascending.
C8Pairs ==
    dd_pc \in {"loop", "done"} =>
        /\ PairsOf(dd_dups) =
             {<<i, j>> \in (1..Len(dd_orgs)) \X (1..Len(dd_orgs)) :
                 i < j /\ AtLeast(calculate_similarity(dd_orgs[i].organization,
                                                       dd_orgs[j].organization), dd_threshold)}
        /\ \A k \in 1..Len(dd_dups) : \A l \in 1..Len(dd_dups) :
             k < l => \/ dd_dups[k][1] < dd_dups[l][1]
                      \/ dd_dups[k][1] = dd_dups[l][1] /\ dd_dups[k][2] < dd_dups[l][2]
        /\ dd_k = 1 => dd_st.keep = 1..Len(dd_orgs)

\* C8 (step part): a pair with an evicted member is skipped; otherwise the member with
\* the strictly lower completeness score is evicted, the right one when they are equal.
C8Step ==
    (dd_pc = "loop" /\ dd_k <= Len(dd_dups) /\ dd_k' = dd_k + 1) =>
        LET i == dd_dups[dd_k][1]
            j == dd_dups[dd_k][2]
            pi == CompletenessPoints(dd_orgs[i])
            pj == CompletenessPoints(dd_orgs[j])
        IN  dd_st'.keep =
                IF i \notin dd_st.keep \/ j \notin dd_st.keep THEN dd_st.keep
                ELSE IF pi < pj THEN dd_st.keep \ {i}
                ELSE dd_st.keep \ {j}

\* C8: deduplicate_organizations resolves conflicts greedily over a kept-set, in
\* discovery order, skipping pairs with an evicted member, evicting the strictly
\* less complete member and the right member on a tie.
Thm_C8 == [](C8Pairs) /\ [][C8Step]_vars

\* C8 witness: a finished run in which one pair was skipped, one conflict evicted the
\* left member and one tie evicted the right member
Wit_C8 ==
    /\ dd_pc = "done"
    /\ \E k \in 1..Len(dd_dups) : dd_st.log[k] = 0
    /\ \E k \in 1..Len(dd_dups) : dd_st.log[k] = dd_dups[k][1]
    /\ \E k \in 1..Len(dd_dups) :
         /\ dd_st.log[k] = dd_dups[k][2]
         /\ CompletenessPoints(dd_orgs[dd_dups[k][1]]) = CompletenessPoints(dd_orgs[dd_dups[k][2]])

Evicting == {k \in 1..Len(dd_st.log) : dd_st.log[k] # 0}

EvictedIdx == {dd_st.log[k] : k \in Evicting}

\* the index that won conflict k
WinnerOf(k) == IF dd_st.log[k] = dd_dups[k][1] THEN dd_dups[k][2] ELSE dd_dups[k][1]

WinnerName(k) == Field(dd_orgs[WinnerOf(k)], "organization")

\* the n-th smallest index of a set of indices
NthOf(S, n) == CHOOSE i \in S : Cardinality({j \in S : j < i}) = n - 1

Survivors == (1..Len(dd_orgs)) \ EvictedIdx

\* C21: deduplicate_organizations returns the surviving candidates as a subsequence
\* of the input in original relative order, and duplicates_removed equals the input
\* length minus the number of survivors, which equals the number of conflicts in which
\* a member was evicted.
Thm_C21 ==
    dd_pc = "done" =>
        LET unique == dd_result.unique_organizations
        IN  /\ Len(unique) = Cardinality(Survivors)
            /\ \A n \in 1..Len(unique) : unique[n] = dd_orgs[NthOf(Survivors, n)]
            /\ dd_result.duplicates_removed = Len(dd_orgs) - Len(unique)
            /\ dd_result.duplicates_removed = Cardinality(Evicting)

\* C21 witness: a finished run with two evictions and a skipped pair, whose survivors
\* are two different records with an evicted record between them
Wit_C21 ==
    /\ dd_pc = "done"
    /\ Cardinality(Evicting) >= 2
    /\ \E k \in 1..Len(dd_st.log) : dd_st.log[k] = 0
    /\ \E a, b \in Survivors : \E e \in EvictedIdx :
          a < e /\ e < b /\ dd_orgs[a] # dd_orgs[b]
    /\ Len(dd_result.unique_organizations) = Cardinality(Survivors)

\* the last processed conflict won by an organization of this name
LastWon(name) ==
    CHOOSE k \in Evicting :
        /\ WinnerName(k) = name
        /\ \A l \in Evicting : WinnerName(l) = name => l <= k

\* C22: confidence_scores has an entry for exactly the organizations that won at least
\* one processed duplicate conflict, keyed by organization name; its value is the
\* similarity to the counterpart evicted in that conflict, and for an organization that
\* won several conflicts the similarity of the last conflict processed.
Thm_C22 ==
    /\ dd_pc \in {"loop", "done"} =>
          /\ DOMAIN dd_st.conf = {WinnerName(k) : k \in Evicting}
          /\ \A name \in DOMAIN dd_st.conf : dd_st.conf[name] = dd_dups[LastWon(name)][3]
    /\ (dd_pc = "done" /\ dd_orgs # <<>>) => dd_result.confidence_scores = dd_st.conf

\* C22 witness: a finished run in which one organization won two conflicts with
\* different similarities and another winner was itself evicted later
Wit_C22 ==
    /\ dd_pc = "done"
    /\ \E k, l \in Evicting :
          /\ k < l
          /\ WinnerName(k) = WinnerName(l)
          /\ dd_dups[k][3] # dd_dups[l][3]
          /\ dd_result.confidence_scores[WinnerName(k)] = dd_dups[l][3]
    /\ \E k \in Evicting : WinnerOf(k) \in EvictedIdx

\* C26: after deduplicate_organizations returns, no two distinct organizations of
\* unique_organizations have similarity >= similarity_threshold to each other, so
\* running deduplicate_organizations on its own output removes nothing.
CE_C26 ==
    dd_pc = "done" =>
        LET unique == dd_result.unique_organizations
        IN  /\ \A a, b \in 1..Len(unique) : a # b => ~Flagged(unique, a, b, dd_threshold)
            /\ Removed(unique, dd_threshold) = 0

\* C27: every candidate evicted by deduplicate_organizations has similarity >=
\* similarity_threshold to at least one candidate of the returned
\* unique_organizations.
CE_C27 ==
    dd_pc = "done" =>
        \A e \in EvictedIdx :
            \E s \in Survivors :
                \/ Flagged(dd_orgs, e, s, dd_threshold)
                \/ Flagged(dd_orgs, s, e, dd_threshold)


(***************************************************************************)
(* Claims about calculate_similarity (checked under SpecSim)               *)
(***************************************************************************)
FracEq(f, g) == f.n * g.d = g.n * f.d

FracGeq(f, g) == f.n * g.d >= g.n * f.d

\* C11: similarity is symmetric: once both orders of the two names have been
\* compared, calculate_similarity(a, b) equals calculate_similarity(b, a), in the
\* Deduplicator and in the uniqueness evaluator.
CE_C11 ==
    (sm_fwd # NoSimilarity /\ sm_rev # NoSimilarity) => FracEq(sm_fwd, sm_rev)

\* C12: self-similarity: for every non-empty name a, also one made only of
\* punctuation or of stripped suffix words, calculate_similarity(a, a) is 1.0, in the
\* Deduplicator and in the uniqueness evaluator.
CE_C12 ==
    (sm_self # NoSimilarity /\ sm_a # <<>>) => FracEq(sm_self, Frac(1, 1))

\* C13: when either of the two names normalizes to the empty string,
\* calculate_similarity returns 0.0, so two such names are never flagged as
\* duplicates of each other.
CE_C13 ==
    (/\ sm_fwd # NoSimilarity
     /\ \/ Normalized(sm_which, sm_a) = <<>>
        \/ Normalized(sm_which, sm_b) = <<>>)
    => /\ sm_fwd.n = 0
       /\ ~AtLeast(sm_fwd, DefaultThreshold)

\* C14: for two names whose normalized forms are non-empty and different, the value
\* calculate_similarity returns is never smaller than the base sequence-matching
\* ratio of the two normalized names.
CE_C14 ==
    (/\ sm_fwd # NoSimilarity
     /\ Normalized(sm_which, sm_a) # <<>>
     /\ Normalized(sm_which, sm_b) # <<>>
     /\ Normalized(sm_which, sm_a) # Normalized(sm_which, sm_b))
    => FracGeq(sm_fwd, SeqRatio(Normalized(sm_which, sm_a), Normalized(sm_which, sm_b)))

\* C15: "Mayo Clinic Health System" and "Mayo Clinic Health System, Inc." have
\* equal normalized forms and a similarity of at least 0.85, in the Deduplicator
\* and in the uniqueness evaluator.
CE_C15 ==
    (sm_a = NameMayoSystem /\ sm_b = NameMayoSystemInc /\ sm_fwd # NoSimilarity)
    => /\ Normalized(sm_which, sm_a) = Normalized(sm_which, sm_b)
       /\ AtLeast(sm_fwd, DefaultThreshold)

(***************************************************************************)
(* Claims about the two duplicate checks on a batch (checked under SpecUq) *)
(***************************************************************************)
Blank(cell) == \A i \in 1..Len(cell) : cell[i] \in SpaceChars

\* the row carries no organization name in the cell the evaluator reads
Nameless(row) ==
    IF "Organization" \in DOMAIN row /\ row["Organization"] # <<>>
    THEN Blank(row["Organization"])
    ELSE "Company" \in DOMAIN row => Blank(row["Company"])

Evaluated == "evaluate" \in uq_done /\ uq_file = "ok"

\* C23: empty inputs give a zero-valued structured result: deduplicate_organizations
\* on an empty list returns an empty unique list, duplicates_removed = 0 and empty
\* confidence_scores, and evaluate_organization_uniqueness on a CSV without
\* organization names returns score 0.0 and a details mapping holding an error entry.
Thm_C23 ==
    /\ ("deduplicate" \in uq_done /\ uq_rows = <<>>) =>
          /\ uq_dedup.unique_organizations = <<>>
          /\ uq_dedup.duplicates_removed = 0
          /\ DOMAIN uq_dedup.confidence_scores = {}
    /\ (Evaluated /\ \A k \in 1..Len(uq_rows) : Nameless(uq_rows[k])) =>
          /\ uq_result.score.n = 0
          /\ uq_result.score.d # 0
          /\ "error" \in DOMAIN uq_result.details
          /\ "final_score" \notin DOMAIN uq_result.details

\* C23 witness: both checks have run on a CSV that holds the header line only
Wit_C23 ==
    /\ uq_file = "ok"
    /\ uq_rows = <<>>
    /\ uq_done = {"evaluate", "deduplicate"}
    /\ uq_result.details.error = "No organization names found in CSV"
    /\ uq_dedup.duplicates_removed = 0

UqNames == organizations_of(uq_rows)

UqPairs == {p \in (1..Len(UqNames)) \X (1..Len(UqNames)) : p[1] < p[2]}

UqSimilarity(p) == eval_calculate_similarity(UqNames[p[1]], UqNames[p[2]])

\* U: the number of distinct normalized names
UqDistinct ==
    Cardinality({eval_normalize_organization_name(UqNames[k]) : k \in 1..Len(UqNames)})

\* H: the number of pairs with similarity >= 0.95
UqHigh == Cardinality({p \in UqPairs : AtLeast(UqSimilarity(p), 95)})

\* M: the number of pairs with 0.85 <= similarity < 0.95
UqMedium ==
    Cardinality({p \in UqPairs :
                    AtLeast(UqSimilarity(p), 85) /\ ~AtLeast(UqSimilarity(p), 95)})

\* C24: for n >= 1 names the reported final_score is max(0, U/n - (2H + M)/n) * 100,
\* it lies in [0, 100], and it is 100 when all names are distinct after
\* normalization and no pair reaches similarity 0.85.
Thm_C24 ==
    (Evaluated /\ Len(UqNames) >= 1) =>
        LET final == uq_result.details.final_score
        IN  /\ final.d > 0
            /\ final.n * Len(UqNames) =
                   100 * Max(0, UqDistinct - (2 * UqHigh + UqMedium)) * final.d
            /\ final.n >= 0
            /\ final.n <= 100 * final.d
            /\ (UqDistinct = Len(UqNames) /\ UqHigh = 0 /\ UqMedium = 0) =>
                   final.n = 100 * final.d

\* C24 witness: an evaluated CSV of three names with a high-confidence and a
\* medium-confidence pair, whose penalty exceeds the uniqueness ratio
Wit_C24 ==
    /\ Evaluated
    /\ Len(UqNames) = 3
    /\ UqHigh >= 1
    /\ UqMedium >= 1
    /\ UqDistinct < 2 * UqHigh + UqMedium
    /\ uq_result.details.final_score.n = 0
    /\ uq_result.details.high_confidence_duplicates = UqHigh

====
